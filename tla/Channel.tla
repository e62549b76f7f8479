------------------------------ MODULE Channel ------------------------------
(***************************************************************************)
(* What the event stream of a worker promises, stated without sessions,    *)
(* outboxes or replays: the hub goes through what was sent in the order it *)
(* was sent and skips nothing but what may be dropped.  Forgetting how far *)
(* it got (a restart) lets it go over some of the past again.              *)
(*                                                                         *)
(*   sent       what was sent: a sequence of [seq, job, kind]              *)
(*   mark       the number of the last event delivered, -1 for none        *)
(*   delivered  the positions ever delivered                               *)
(***************************************************************************)
EXTENDS Integers, Sequences

VARIABLES sent, mark, delivered

\* Sent after an event with a higher number, or after the end of its job.
Droppable(i) ==
    \E h \in 1..(i - 1) :
       \/ sent[h].seq > sent[i].seq
       \/ sent[h].kind = "end" /\ sent[h].job = sent[i].job

Init == sent = <<>> /\ mark = -1 /\ delivered = {}

\* Anything may be sent under a number of its own.
Send ==
    /\ sent' # sent
    /\ LET e == sent'[Len(sent')]
       IN /\ sent' = Append(sent, e)
          /\ \A i \in DOMAIN sent : sent[i].seq # e.seq
    /\ UNCHANGED <<mark, delivered>>

Deliver(i) ==
    /\ sent[i].seq > mark
    /\ \A j \in 1..(i - 1) : j \in delivered \/ Droppable(j)
    /\ mark' = sent[i].seq
    /\ delivered' = delivered \cup {i}
    /\ UNCHANGED sent

Forget == mark' = -1 /\ UNCHANGED <<sent, delivered>>

Next == Send \/ (\E i \in DOMAIN sent : Deliver(i)) \/ Forget

Spec == Init /\ [][Next]_<<sent, mark, delivered>>
=============================================================================
