------------------------------- MODULE Arena -------------------------------
(***************************************************************************)
(* What a memory pool promises its client: every piece it gives out is the *)
(* client's alone until the client frees it or resets or destroys the      *)
(* pool, and nothing is out once the pool is gone.                         *)
(***************************************************************************)
CONSTANTS
  Pieces,          \* everything an allocation may return
  Overlap(_, _)    \* do two pieces share a byte?

VARIABLES
  open,   \* is there a pool?
  out     \* the pieces the client may use

Init == open = FALSE /\ out = {}

Create == ~open /\ open' = TRUE /\ out' = {}

Alloc(new) ==
  /\ open
  /\ new \subseteq Pieces
  /\ \A a \in new, b \in out \cup new : a = b \/ ~Overlap(a, b)
  /\ out' = out \cup new
  /\ UNCHANGED open

Free(a) == open /\ a \in out /\ out' = out \ {a} /\ UNCHANGED open

Reset == open /\ out' = {} /\ UNCHANGED open

Close == open /\ open' = FALSE /\ out' = {}

Next ==
  \/ Create \/ Reset \/ Close
  \/ Alloc(out' \ out)
  \/ \E a \in out : Free(a)

Spec == Init /\ [][Next]_<<open, out>>
=============================================================================
