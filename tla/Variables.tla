------------------------------ MODULE Variables ------------------------------
(***************************************************************************)
(* The variables of users (data_elements, named by a key) and their values *)
(* (data_element_values) in one environment: models/data_element.rb,       *)
(* data_element_value.rb and their controllers.                            *)
(*                                                                         *)
(* A test names a variable by its row, but whoever runs the test supplies  *)
(* the value: it is looked up by the variable's key among the rows of the  *)
(* user who runs.  That a user has one row per key is a validation, asked  *)
(* of the snapshot a transaction took when it began.                       *)
(***************************************************************************)
EXTENDS Naturals, FiniteSets

CONSTANTS
    Users,
    Keys,
    MaxElements,    \* bound: data_elements ever created
    Sessions,       \* bound: saves of data_elements under way at a time
    None,           \* nil: no such row yet, static data, no save
    Gone            \* owner of a destroyed row

Elements == 1..MaxElements  \* ids, given in this order

ASSUME VariablesAssumption ==
    /\ MaxElements \in Nat
    /\ {None, Gone} \cap (Users \cup Keys \cup Elements) = {}
    /\ None # Gone

VARIABLES
    owner,          \* data_elements.user_id
    key,            \* data_elements.key
    value,          \* its value: none, its owner's, or one without a user
    save,           \* session -> the data_element it is about to write
    outdated,       \* sessions that validated before another one wrote
    raced           \* history: an outdated session has written

variables == <<owner, key, value, save, outdated, raced>>

-----------------------------------------------------------------------------
Named(u, k) == {e \in Elements : owner[e] = u /\ key[e] = k}

\* first orders by id
FirstNamed(u, k) == CHOOSE e \in Named(u, k) : \A f \in Named(u, k) : e <= f

\* what user_has_variable and check_owners_have_variables look for
HasValue(u, k) == Named(u, k) # {} /\ value[FirstNamed(u, k)] = "own"

(* Mutant: one row of the key too many is let through. *)
KeyIsFreeTwice(u, k) == Cardinality(Named(u, k)) <= 1

\* unique_key_per_user; a row is in its own way, so saving it unchanged fails
KeyIsFree(u, k) == Named(u, k) = {}

\* a row is written: saves under way validated before it was
Written == outdated' = {s \in Sessions : save'[s] # None}

\* the next id
NextElement(e) == owner[e] = None /\ \A f \in Elements : f < e => owner[f] # None

-----------------------------------------------------------------------------
\* POST data_elements, or PATCH of row e with another key
BeginSave(s, u, k, e) ==
    /\ save[s] = None /\ KeyIsFree(u, k)
    /\ e = None \/ (e \in Elements /\ owner[e] = u)
    /\ save' = [save EXCEPT ![s] = [user |-> u, key |-> k, row |-> e]]
    /\ outdated' = outdated \ {s}
    /\ UNCHANGED <<owner, key, value, raced>>

\* the transaction commits; an UPDATE of a row that is gone changes none
EndSave(s) ==
    /\ save[s] # None
    /\ save' = [save EXCEPT ![s] = None]
    /\ \/ /\ save[s].row = None
          /\ \E e \in Elements :
                /\ NextElement(e)
                /\ owner' = [owner EXCEPT ![e] = save[s].user]
                /\ key' = [key EXCEPT ![e] = save[s].key]
       \/ /\ save[s].row # None
          /\ key' = IF owner[save[s].row] = save[s].user
                    THEN [key EXCEPT ![save[s].row] = save[s].key] ELSE key
          /\ UNCHANGED owner
    /\ Written
    /\ raced' = (raced \/ s \in outdated)
    /\ UNCHANGED value

\* POST data_element_values: one per variable and environment, whoever owns it
NewValue(u, e) ==
    /\ owner[e] = u /\ value[e] = "none"
    /\ value' = [value EXCEPT ![e] = "own"]
    /\ UNCHANGED <<owner, key, save, outdated, raced>>

\* DELETE data_element_values/:id, by the user of the value
DropValue(u, e) ==
    /\ owner[e] = u /\ value[e] = "own"
    /\ value' = [value EXCEPT ![e] = "none"]
    /\ UNCHANGED <<owner, key, save, outdated, raced>>

(* Mutant: its values stay. *)
DropElementOnly(u, e) ==
    /\ owner[e] = u
    /\ owner' = [owner EXCEPT ![e] = Gone]
    /\ key' = [key EXCEPT ![e] = None]
    /\ UNCHANGED <<value, save, outdated, raced>>

\* DELETE data_elements/:id: its values go with it
DropElement(u, e) ==
    /\ owner[e] = u
    /\ owner' = [owner EXCEPT ![e] = Gone]
    /\ key' = [key EXCEPT ![e] = None]
    /\ value' = [value EXCEPT ![e] = "none"]
    /\ UNCHANGED <<save, outdated, raced>>

InitVariables ==
    /\ owner = [e \in Elements |-> None]
    /\ key = [e \in Elements |-> None]
    /\ value = [e \in Elements |-> "none"]
    /\ save = [s \in Sessions |-> None]
    /\ outdated = {} /\ raced = FALSE

NextVariables ==
    \/ \E s \in Sessions : EndSave(s)
    \/ \E u \in Users :
          \/ \E s \in Sessions, k \in Keys, e \in Elements \cup {None} : BeginSave(s, u, k, e)
          \/ \E e \in Elements : NewValue(u, e) \/ DropValue(u, e) \/ DropElement(u, e)

-----------------------------------------------------------------------------
(* Properties. *)

\* The rows and the saves under way have the shape the controllers give them,
\* and nothing is left of a destroyed row.
TypeVariables ==
    /\ owner \in [Elements -> Users \cup {None, Gone}]
    /\ key \in [Elements -> Keys \cup {None}]
    /\ value \in [Elements -> {"none", "own", "ownerless"}]
    /\ \A e \in Elements : owner[e] \notin Users => key[e] = None /\ value[e] = "none"
    /\ save \in [Sessions ->
          [user : Users, key : Keys, row : Elements \cup {None}] \cup {None}]
    /\ outdated \subseteq Sessions
    /\ raced \in BOOLEAN

\* A value a user has entered for a variable is the one his runs find: at most
\* one of his rows has the key, however rows are created, copied, renamed and
\* destroyed.  Only two saves that validated at once can hide it behind
\* another row of the same key.
ValueIsFound ==
    ~raced => \A u \in Users, k \in Keys :
        (\E e \in Named(u, k) : value[e] = "own") => HasValue(u, k)
=============================================================================
