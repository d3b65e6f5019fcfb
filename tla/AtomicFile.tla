----------------------------- MODULE AtomicFile -----------------------------
(***************************************************************************)
(* What fsutil.Write promises to those who replace one file with it          *)
(* (internal/fsutil/atomic.go:10-13): the file is replaced as a whole and by *)
(* nothing but what was offered, a power failure leaves one of the files     *)
(* whole, and a reported replacement is one that the next power failure      *)
(* does not undo.                                                          *)
(***************************************************************************)
CONSTANTS Writers, Values

VARIABLES
  content,    \* what a reader finds
  surviving,  \* what a reader may find after a power failure
  stage,      \* how far each writer has come
  offer       \* offer[w]: what w writes

fileVars == <<content, surviving, stage, offer>>

Init ==
  /\ content \in Values
  /\ surviving = {content}
  /\ stage = [w \in Writers |-> "none"]
  /\ offer \in [Writers -> Values]

Begin(w) ==
  /\ stage[w] = "none"
  /\ stage' = [stage EXCEPT ![w] = "offered"]
  /\ offer' \in [Writers -> Values]
  /\ \A u \in Writers \ {w} : offer'[u] = offer[u]
  /\ UNCHANGED <<content, surviving>>

Replace(w) ==
  /\ stage[w] = "offered"
  /\ stage' = [stage EXCEPT ![w] = "replaced"]
  /\ content' = offer[w]
  /\ surviving' = surviving \cup {offer[w]}
  /\ UNCHANGED offer

\* From here on no power failure brings back what the file was before.
Report(w) ==
  /\ stage[w] = "replaced"
  /\ stage' = [stage EXCEPT ![w] = "reported"]
  /\ surviving' = {content}
  /\ UNCHANGED <<content, offer>>

\* A writer that fails or dies says nothing of what it has done.
GiveUp(w) ==
  /\ stage[w] \in {"none", "offered", "replaced"}
  /\ stage' = [stage EXCEPT ![w] = "gone"]
  /\ surviving' \in {surviving, {content}}
  /\ UNCHANGED <<content, offer>>

PowerFails ==
  /\ \E v \in surviving : content' = v /\ surviving' = {v}
  /\ stage' = [w \in Writers |->
                 IF stage[w] \in {"offered", "replaced"} THEN "gone" ELSE stage[w]]
  /\ UNCHANGED offer

Next ==
  \/ \E w \in Writers : Begin(w) \/ Replace(w) \/ Report(w) \/ GiveUp(w)
  \/ PowerFails

Spec == Init /\ [][Next]_fileVars
=============================================================================
