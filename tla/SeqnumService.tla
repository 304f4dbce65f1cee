--------------------------- MODULE SeqnumService ---------------------------
(***************************************************************************)
(* What a sequence-number service promises, whatever carries its messages. *)
(* Each client is attended to at most once, in one indivisible step that   *)
(* reserves as many numbers as it asked for, from the next free one on.    *)
(* The client is told the first of them, or is not (it has gone away), and *)
(* then its numbers are skipped.                                           *)
(***************************************************************************)
EXTENDS Naturals

CONSTANTS Clients,
          Ints          \* the numbers wrap at Ints

VARIABLES len,          \* how many numbers each client wants
          next,         \* the next free number
          attended,     \* clients whose numbers are reserved
          told          \* the number a client was told ({} or {n})

service == <<len, next, attended, told>>

Init ==
    /\ next \in 0 .. Ints - 1
    /\ attended = {}
    /\ told = [c \in Clients |-> {}]

Reserve(c) ==
    /\ c \in Clients \ attended
    /\ len[c] > 0
    /\ attended' = attended \cup {c}
    /\ next' = (next + len[c]) % Ints
    /\ told' \in {told, [told EXCEPT ![c] = {next}]}
    /\ UNCHANGED len

Next == \E c \in Clients : Reserve(c)

Spec == Init /\ [][Next]_service
=============================================================================
