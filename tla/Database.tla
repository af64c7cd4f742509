------------------------------ MODULE Database ------------------------------
(***************************************************************************)
(* What the database file promises (docs/architecture.md, "SQLite          *)
(* migrations are transactional/versioned"): it goes from an old schema to *)
(* the current one in one step and keeps every value; only a current one   *)
(* is used; one of a later program is never touched.                       *)
(***************************************************************************)
EXTENDS Naturals

CONSTANTS Rows,     \* rows that hold a point's value
          Values,   \* what a row can mean
          Absent,   \* no such row
          Parts,    \* the tables, columns and indexes of the current schema
          OldParts, \* those of the previous one
          Current   \* the current version

VARIABLES version, schema, value

vars == <<version, schema, value>>

\* A new file, an old database, a current one, one of a later program.
Init ==
  /\ \/ version < Current /\ schema = {} /\ value = [r \in Rows |-> Absent]
     \/ version < Current /\ schema = OldParts
     \/ version >= Current /\ schema = Parts
  /\ version \in Nat
  /\ value \in [Rows -> Values \cup {Absent}]

Upgrade ==
  /\ version < Current
  /\ version' = Current
  /\ schema' = Parts
  /\ UNCHANGED value

Use ==
  /\ version = Current
  /\ value' \in [Rows -> Values \cup {Absent}]
  /\ UNCHANGED <<version, schema>>

Next == Upgrade \/ Use

Spec == Init /\ [][Next]_vars
=============================================================================
