---------------------------- MODULE CatalogueSync ----------------------------
(***************************************************************************)
(* The parse of the catalogue syncs (lib/tasks/*_sync.rb): save a row for  *)
(* every name the API lists, then archive the rows it does not list.  Both *)
(* queries go through the default scope of InApi and see no archived row.  *)
(*                                                                         *)
(* Each find and each save is a step of its own: no transaction spans the  *)
(* pass, and a forked chain of jobs runs two passes at once.  The columns  *)
(* other than the name (description, grouping, ...) are left out.          *)
(***************************************************************************)
EXTENDS Integers, FiniteSets

CONSTANTS
    Names,          \* names the API may list
    Syncs,          \* processes that run the sync
    Unique,         \* the model validates the uniqueness of the name (BrowserType)
    NoName,         \* "no name"
    NoRow,          \* "no row"
    MaxRows,        \* bound: rows of the table
    MaxChanges,     \* bound: changes of the API's list
    MaxAborts       \* bound: passes that die half way

Ids == 1..MaxRows
Row == [name : Names, archived : BOOLEAN]

ASSUME NoneAssumption == NoName \notin Names /\ NoRow \notin Row
ASSUME UniqueAssumption == Unique \in BOOLEAN
ASSUME BoundAssumption == MaxRows \in Nat /\ MaxChanges \in Nat /\ MaxAborts \in Nat

VARIABLES
    source,     \* the names the API lists (external)
    rows,       \* id -> row of the catalogue's table
    at,         \* sync -> where it is
    snapshot,   \* sync -> the list it parses
    unsaved,    \* sync -> the names of the list it has not saved
    cur,        \* sync -> the name it found no row for
    invalids,   \* sync -> the ids it is about to archive
    changes, aborts

locals == <<at, snapshot, unsaved, cur, invalids>>
vars == <<source, rows, locals, changes, aborts>>

Named(n) == {id \in Ids : rows[id] # NoRow /\ rows[id].name = n}

\* the rows of that name which the default scope lets through
Seen(n) == {id \in Named(n) : ~rows[id].archived}
SeenNames == {n \in Names : Seen(n) # {}}
SeenIds == UNION {Seen(n) : n \in Names}

-----------------------------------------------------------------------------
\* an exception leaves parse, or it is through; the job runs again later
Stop(p) == /\ at' = [at EXCEPT ![p] = "idle"]
           /\ unsaved' = [unsaved EXCEPT ![p] = {}]
           /\ cur' = [cur EXCEPT ![p] = NoName]
           /\ invalids' = [invalids EXCEPT ![p] = {}]
           /\ UNCHANGED snapshot

Get(p) ==
    /\ at[p] = "idle"
    /\ at' = [at EXCEPT ![p] = "saving"]
    /\ snapshot' = [snapshot EXCEPT ![p] = source]
    /\ unsaved' = [unsaved EXCEPT ![p] = source]
    /\ UNCHANGED <<source, rows, cur, invalids, changes, aborts>>

(* Mutant: the row is initialized without looking for one. *)
FindNone(p, n) ==
    /\ at[p] = "saving" /\ n \in unsaved[p]
    /\ unsaved' = [unsaved EXCEPT ![p] = @ \ {n}]
    /\ at' = [at EXCEPT ![p] = "inserting"]
    /\ cur' = [cur EXCEPT ![p] = n]
    /\ UNCHANGED <<source, rows, snapshot, invalids, changes, aborts>>

\* find_or_initialize_by, and the validation of save!, which sees archived rows
\* too; a row that is found keeps its name and stays unarchived
Find(p, n) ==
    /\ at[p] = "saving" /\ n \in unsaved[p]
    /\ \/ /\ Seen(n) # {} /\ (Unique => Cardinality(Named(n)) = 1)
          /\ unsaved' = [unsaved EXCEPT ![p] = @ \ {n}]
          /\ UNCHANGED <<at, snapshot, cur, invalids>>
       \/ /\ Seen(n) = {} /\ (Unique => Named(n) = {})
          /\ unsaved' = [unsaved EXCEPT ![p] = @ \ {n}]
          /\ at' = [at EXCEPT ![p] = "inserting"]
          /\ cur' = [cur EXCEPT ![p] = n]
          /\ UNCHANGED <<snapshot, invalids>>
       \/ /\ Unique
          /\ IF Seen(n) # {} THEN Cardinality(Named(n)) > 1 ELSE Named(n) # {}
          /\ Stop(p)
    /\ UNCHANGED <<source, rows, changes, aborts>>

\* the INSERT of save!; its validation may have come just after another sync's
Insert(p) ==
    /\ at[p] = "inserting"
    /\ \/ /\ \E id \in Ids :
               /\ rows[id] = NoRow /\ \A other \in 1..(id - 1) : rows[other] # NoRow
               /\ rows' = [rows EXCEPT ![id] = [name |-> cur[p], archived |-> FALSE]]
          /\ at' = [at EXCEPT ![p] = "saving"]
          /\ cur' = [cur EXCEPT ![p] = NoName]
          /\ UNCHANGED <<snapshot, unsaved, invalids>>
       \/ /\ Unique /\ Named(cur[p]) # {}
          /\ Stop(p) /\ UNCHANGED rows
    /\ UNCHANGED <<source, changes, aborts>>

(* Mutants: the listed rows are the invalid ones; names instead of rows. *)
LoadListed(p) ==
    /\ at[p] = "saving" /\ unsaved[p] = {}
    /\ at' = [at EXCEPT ![p] = "archiving"]
    /\ invalids' = [invalids EXCEPT ![p] =
                      {id \in SeenIds : rows[id].name \in snapshot[p]}]
    /\ UNCHANGED <<source, rows, snapshot, unsaved, cur, changes, aborts>>
LoadNames(p) ==
    /\ at[p] = "saving" /\ unsaved[p] = {}
    /\ at' = [at EXCEPT ![p] = "archiving"]
    /\ invalids' = [invalids EXCEPT ![p] = SeenNames \ snapshot[p]]
    /\ UNCHANGED <<source, rows, snapshot, unsaved, cur, changes, aborts>>

\* the seen rows whose name the list does not hold
LoadInvalids(p) ==
    /\ at[p] = "saving" /\ unsaved[p] = {}
    /\ at' = [at EXCEPT ![p] = "archiving"]
    /\ invalids' = [invalids EXCEPT ![p] =
                      {id \in SeenIds : rows[id].name \notin snapshot[p]}]
    /\ UNCHANGED <<source, rows, snapshot, unsaved, cur, changes, aborts>>

\* archived = true and save!, which validates as well
Archive(p, id) ==
    /\ at[p] = "archiving" /\ id \in invalids[p]
    /\ IF Unique /\ Cardinality(Named(rows[id].name)) > 1
       THEN Stop(p) /\ UNCHANGED rows
       ELSE /\ rows' = [rows EXCEPT ![id].archived = TRUE]
            /\ invalids' = [invalids EXCEPT ![p] = @ \ {id}]
            /\ UNCHANGED <<at, snapshot, unsaved, cur>>
    /\ UNCHANGED <<source, changes, aborts>>

(* Mutant: the sync is not queued again. *)
EndForGood(p) ==
    /\ at[p] = "archiving" /\ invalids[p] = {}
    /\ UNCHANGED vars

\* queue_next
End(p) ==
    /\ at[p] = "archiving" /\ invalids[p] = {}
    /\ Stop(p)
    /\ UNCHANGED <<source, rows, changes, aborts>>

\* the process dies or the database fails: what was saved stays
Abort(p) ==
    /\ at[p] # "idle" /\ aborts < MaxAborts
    /\ aborts' = aborts + 1
    /\ Stop(p)
    /\ UNCHANGED <<source, rows, changes>>

\* external: the API lists other names
ApiChange ==
    /\ changes < MaxChanges /\ changes' = changes + 1
    /\ source' \in SUBSET Names
    /\ UNCHANGED <<rows, locals, aborts>>

-----------------------------------------------------------------------------
Init ==
    /\ source \in SUBSET Names
    /\ rows = [id \in Ids |-> NoRow]
    /\ at = [p \in Syncs |-> "idle"]
    /\ snapshot = [p \in Syncs |-> {}]
    /\ unsaved = [p \in Syncs |-> {}]
    /\ cur = [p \in Syncs |-> NoName]
    /\ invalids = [p \in Syncs |-> {}]
    /\ changes = 0 /\ aborts = 0

Sync(p) ==
    \/ Get(p) \/ Insert(p) \/ LoadInvalids(p) \/ End(p)
    \/ \E n \in Names : Find(p, n)
    \/ \E id \in Ids : Archive(p, id)

Next == (\E p \in Syncs : Sync(p) \/ Abort(p)) \/ ApiChange

Spec == Init /\ [][Next]_vars

(* The chain of a sync never ends (EnsuredChainLives) and its jobs are run. *)
FairSpec == Spec /\ \A p \in Syncs : WF_vars(Sync(p))

-----------------------------------------------------------------------------
(* Properties. *)

\* The locals of a sync are of the right kind: names while it saves, ids of
\* existing rows while it archives.
TypeOK ==
    /\ source \subseteq Names
    /\ rows \in [Ids -> Row \cup {NoRow}]
    /\ at \in [Syncs -> {"idle", "saving", "inserting", "archiving"}]
    /\ snapshot \in [Syncs -> SUBSET Names]
    /\ unsaved \in [Syncs -> SUBSET Names]
    /\ cur \in [Syncs -> Names \cup {NoName}]
    /\ invalids \in [Syncs -> SUBSET Ids]
    /\ \A p \in Syncs : /\ \A id \in invalids[p] : rows[id] # NoRow
                        /\ at[p] = "inserting" => cur[p] \in Names
    /\ changes \in Nat /\ aborts \in Nat

\* A name is seen no more often than there are syncs, so never twice while one
\* sync runs, though every pass may die after any save and names come and go; and
\* if the name is validated, no more rows than that have it, archived or not.
NamesAreScarce ==
    \A n \in Names :
        Cardinality(IF Unique THEN Named(n) ELSE Seen(n)) <= Cardinality(Syncs)

\* A pass that is through has made the catalogue what the API listed when the
\* pass asked, whatever earlier passes left behind.
PassMirrorsList ==
    \A p \in Syncs : at[p] = "archiving" /\ invalids[p] = {} => SeenNames = snapshot[p]

\* Readers see a name come only because a sync's last list held it, and go only
\* because it did not; also while two passes run at once.
Mirror == INSTANCE CatalogueMirror WITH names <- SeenNames
MirrorSpec == Mirror!Spec

\* Once the API's list no longer changes, the catalogue becomes that list for
\* good.  The comment of browser_sync.rb line 28 promises as much: any new are
\* added, or modified as necessary.
EventuallyMirrored ==
    \A list \in SUBSET Names : <>[](source = list) => <>[](SeenNames = list)
=============================================================================
