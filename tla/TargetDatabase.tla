--------------------------- MODULE TargetDatabase ---------------------------
(***************************************************************************)
(* What users of the target database may rely on. It is created, claimed   *)
(* by one loader, filled by that loader in the order of the dump, and      *)
(* finished; the archive writer adds to whatever schema is there.          *)
(* Only dropping the database takes anything away.                         *)
(***************************************************************************)
CONSTANTS
  Runs,    \* bootstraps
  Nobody,  \* no owner
  Writer   \* the archive writer, or an operator's own archive

VARIABLES
  dbExists, \* the database exists
  owner,   \* whose tables it has
  blocks,  \* whose rows the blocks table has
  rest     \* whose other rows and constraints it has

vars == <<dbExists, owner, blocks, rest>>

Owners == Runs \cup {Writer}

Init ==
  \/ /\ dbExists \in BOOLEAN /\ owner = Nobody
     /\ blocks = {} /\ rest = {}
  \/ /\ dbExists = TRUE /\ owner = Writer
     /\ blocks \in {{}, {Writer}} /\ rest = blocks

Create == ~dbExists /\ dbExists' = TRUE /\ UNCHANGED <<owner, blocks, rest>>

Claim(o) ==
  /\ dbExists /\ owner = Nobody
  /\ owner' = o
  /\ UNCHANGED <<dbExists, blocks, rest>>

(* Into a schema that a bootstrap has created. *)
AddBlocks(o) ==
  /\ owner \in Runs /\ o \in {owner, Writer}
  /\ blocks' = blocks \cup {o}
  /\ UNCHANGED <<dbExists, owner, rest>>

(* The writer adds to an archive of its own, which is never half there. *)
Extend ==
  /\ owner = Writer
  /\ blocks' = blocks \cup {Writer} /\ rest' = rest \cup {Writer}
  /\ UNCHANGED <<dbExists, owner>>

Finish(o) ==
  /\ owner \in Runs /\ owner = o /\ o \in blocks
  /\ rest' = rest \cup {o}
  /\ UNCHANGED <<dbExists, owner, blocks>>

Drop ==
  /\ dbExists /\ dbExists' = FALSE
  /\ owner' = Nobody /\ blocks' = {} /\ rest' = {}

Next ==
  \/ Create \/ Drop \/ Extend
  \/ \E o \in Owners : Claim(o) \/ AddBlocks(o) \/ Finish(o)

Spec == Init /\ [][Next]_vars
=============================================================================
