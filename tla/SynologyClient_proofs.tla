------------------------ MODULE SynologyClient_proofs ------------------------
(***************************************************************************)
(* Proofs about SynologyClient: its invariants for every number of shares    *)
(* and endpoints.                                                           *)
(***************************************************************************)
EXTENDS SynologyClient, TLAPS

USE DEF vars, client, gateState, G!gateVars

LEMMA Sizes == /\ NumShares \in Nat \ {0} /\ NumServers \in Nat \ {0}
               /\ Shares = 1..NumShares /\ Servers = 1..NumServers
               /\ None \notin Nat /\ Random \notin Nat /\ None # Random
  BY SizesAssumption, BytesAssumption DEF Shares, Servers

LEMMA Pairs == \A e \in Servers, s \in Shares : <<e, s>> \in Calls
  BY DEF Calls

LEMMA InitIInv == Init => IInv
  <1> SUFFICES ASSUME Init PROVE IInv
    OBVIOUS
  <1> USE Sizes, Pairs DEF Init
  <1>1. TypeOK
    <2>1. /\ pc = "share" /\ share \in 1..NumShares + 1 /\ endpoint \in 1..NumServers + 1
          /\ plaintext \in Bytes /\ answer \in Bytes \cup {NoAnswer}
      BY DEF Bytes, NoAnswer
    <2>2. /\ outcome \in [Shares -> Outcomes \cup {"none"}]
          /\ reported \subseteq Shares /\ leased \subseteq Servers /\ granted \subseteq Calls
          /\ empty \subseteq Shares
      BY MaybeEmptyAssumption
    <2>3. /\ tried \in [Calls -> {"none", "asked", "lost", "answered"}]
          /\ call \in [Calls -> Servers \cup {None}]
          /\ result \in [Calls -> G!Results]
      BY DEF G!Results
    <2> QED
      BY <2>1, <2>2, <2>3 DEF TypeOK
  <1>2. SharesInOrder /\ EndpointsInOrder /\ BytesSound
    BY DEF SharesInOrder, EndpointsInOrder, BytesSound, Trying, Current
  <1>3. Remembered /\ ExitHonest
    BY DEF Remembered, ExitHonest
  <1>4. SecretFromApproval /\ FailoverInOrder
    BY DEF SecretFromApproval, FailoverInOrder, Outcomes
  <1> QED
    BY <1>1, <1>2, <1>3, <1>4 DEF IInv

LEMMA TypeStep == IInv /\ [Next]_vars => TypeOK'
  <1> SUFFICES ASSUME IInv, [Next]_vars PROVE TypeOK'
    OBVIOUS
  <1> USE Sizes, Pairs DEF IInv
  <1>1. CASE StartShare
    <2>1. outcome' \in [Shares -> Outcomes \cup {"none"}]
      BY <1>1 DEF StartShare, Conclude, TypeOK, Outcomes
    <2>2. /\ pc' \in {"exited", "report", "endpoint"} /\ exit' \in {exit, "canceled"}
          /\ endpoint' \in {endpoint, 1} /\ plaintext' \in {plaintext, None}
          /\ err' \in {err, FALSE}
      BY <1>1 DEF StartShare, Exit, Conclude
    <2>3. endpoint' \in 1..NumServers + 1 /\ plaintext' \in Bytes /\ err' \in BOOLEAN
      <3>1. endpoint' \in 1..NumServers + 1
        BY <2>2 DEF TypeOK
      <3>2. plaintext' \in Bytes /\ err' \in BOOLEAN
        BY <2>2 DEF TypeOK, Bytes
      <3> QED
        BY <3>1, <3>2
    <2>4. UNCHANGED <<share, failed, reported, tried, json, empty, cancelled, answer, gateState>>
      BY <1>1 DEF StartShare
    <2> QED
      BY <2>1, <2>2, <2>3, <2>4 DEF TypeOK
  <1>2. CASE TryUnseal
    <2>1. Current \in Calls /\ endpoint \in Servers /\ share \in Shares
      BY <1>2 DEF TryUnseal, Current, SharesInOrder, Trying
    <2>2. tried' \in [Calls -> {"none", "asked", "lost", "answered"}]
      BY <1>2, <2>1 DEF TryUnseal, Become, TypeOK
    <2>3. /\ call' \in [Calls -> Servers \cup {None}] /\ result' \in [Calls -> G!Results]
          /\ granted' = granted /\ leased' = leased /\ closing' = closing
      BY <1>2, <2>1 DEF TryUnseal, G!Call, G!Results, TypeOK
    <2>4. answer' \in Bytes \cup {NoAnswer} /\ pc' = "waiting"
      BY <1>2 DEF TryUnseal, Bytes
    <2> QED
      BY <1>2, <2>2, <2>3, <2>4 DEF TryUnseal, TypeOK
  <1>3. CASE EndpointsDone
    BY <1>3 DEF EndpointsDone, TypeOK
  <1>4. CASE Receive \/ RPCFails
    <2>1. /\ endpoint \in Servers /\ endpoint' \in {endpoint, endpoint + 1}
          /\ pc' \in {"judge", "endpoint"} /\ err' \in BOOLEAN
      BY <1>4 DEF Receive, RPCFails, EndpointsInOrder
    <2>2. tried' \in [Calls -> {"none", "asked", "lost", "answered"}]
      BY <1>4 DEF Receive, RPCFails, Become, TypeOK
    <2>3. plaintext' \in Bytes
      BY <1>4 DEF Receive, RPCFails, TypeOK, Bytes
    <2>4. UNCHANGED <<share, failed, outcome, exit, reported, json, empty, cancelled, answer, gateState>>
      BY <1>4 DEF Receive, RPCFails
    <2> QED
      BY <2>1, <2>2, <2>3, <2>4 DEF TypeOK
  <1>5. CASE Judge \/ StartMount \/ EndMount
    <2>1. outcome' \in [Shares -> Outcomes \cup {"none"}]
      BY <1>5 DEF Judge, StartMount, EndMount, Conclude, TypeOK, Outcomes
    <2>2. pc' \in {"report", "mount", "mounting"}
      BY <1>5 DEF Judge, StartMount, EndMount, Conclude
    <2> QED
      BY <1>5, <2>1, <2>2 DEF Judge, StartMount, EndMount, TypeOK
  <1>6. CASE Report
    <2>1. /\ share \in Shares /\ share' \in {share, share + 1}
          /\ pc' \in {"share", "exited"} /\ exit' \in {exit, "output_error"}
          /\ plaintext' = None /\ failed' \in BOOLEAN
      BY <1>6 DEF Report, Exit, SharesInOrder
    <2>2. reported' \subseteq Shares
      BY <1>6, <2>1 DEF Report, TypeOK
    <2> QED
      BY <1>6, <2>1, <2>2 DEF Report, TypeOK, Bytes
  <1>7. CASE Finish
    BY <1>7 DEF Finish, Exit, TypeOK
  <1>8. CASE Cancel
    BY <1>8 DEF Cancel, TypeOK
  <1>9. CASE OperatorApproves \/ LeaseExpires
    <2>1. granted' \subseteq Calls /\ leased' \subseteq Servers
          /\ UNCHANGED <<call, result, closing>>
      BY <1>9 DEF OperatorApproves, LeaseExpires, G!Approve, G!Expire, TypeOK
    <2>2. UNCHANGED <<client, json, empty, cancelled, answer>>
      BY <1>9 DEF OperatorApproves, LeaseExpires
    <2>3. /\ call' \in [Calls -> Servers \cup {None}] /\ result' \in [Calls -> G!Results]
          /\ closing' \in BOOLEAN
      BY <2>1 DEF TypeOK
    <2> QED
      BY <2>1, <2>2, <2>3 DEF TypeOK, client
  <1>10. ASSUME NEW c \in Calls, Respond(c)
         PROVE TypeOK'
    <2>1. /\ call' \in [Calls -> Servers \cup {None}] /\ result' \in [Calls -> G!Results]
          /\ granted' \subseteq Calls /\ UNCHANGED <<leased, closing>>
      BY <1>10 DEF Respond, G!Return, G!Results, TypeOK
    <2>2. answer' \in Bytes \cup {NoAnswer}
      BY <1>10 DEF Respond, Secret, TypeOK, Bytes, Calls
    <2> QED
      BY <1>10, <2>1, <2>2 DEF Respond, TypeOK
  <1>11. CASE UNCHANGED vars
    BY <1>11 DEF TypeOK
  <1> QED
    BY <1>1, <1>2, <1>3, <1>4, <1>5, <1>6, <1>7, <1>8, <1>9, <1>10, <1>11 DEF Next, Step

-----------------------------------------------------------------------------
(* What a step leaves alone, and what it writes down of a call. *)

Quiet == Cancel \/ OperatorApproves \/ LeaseExpires \/ (\E c \in Calls : Respond(c)) \/ UNCHANGED vars

LEMMA QuietStep == Quiet => UNCHANGED <<client, json, empty>> /\ (cancelled => cancelled')
  BY DEF Quiet, Cancel, OperatorApproves, LeaseExpires, Respond

LEMMA Cases == [Next]_vars => Step \/ Receive \/ RPCFails \/ EndMount \/ Quiet
  BY DEF Next, Quiet

LEMMA BecomeAt ==
  ASSUME TypeOK, share \in Shares, endpoint \in Servers, NEW fate, Become(Current, fate)
  PROVE  \A e \in Servers, s \in Shares :
           tried'[<<e, s>>] = IF e = endpoint /\ s = share THEN fate ELSE tried[<<e, s>>]
  <1> TAKE e \in Servers, s \in Shares
  <1>1. <<e, s>> \in Calls /\ (<<e, s>> = <<endpoint, share>> <=> e = endpoint /\ s = share)
    BY Pairs
  <1>2. tried \in [Calls -> {"none", "asked", "lost", "answered"}]
    BY DEF TypeOK
  <1> QED
    BY <1>1, <1>2 DEF Become, Current

LEMMA ConcludeAt ==
  ASSUME TypeOK, share \in Shares, NEW res, Conclude(res)
  PROVE  /\ pc' = "report"
         /\ \A s \in Shares : outcome'[s] = IF s = share THEN res ELSE outcome[s]
  BY DEF Conclude, TypeOK

LEMMA SharesStep == IInv /\ [Next]_vars => SharesInOrder'
  <1> SUFFICES ASSUME IInv, [Next]_vars PROVE SharesInOrder'
    OBVIOUS
  <1>0. TypeOK /\ SharesInOrder /\ EndpointsInOrder
    BY DEF IInv
  <1> USE Sizes
  <1>1. CASE StartShare
    <2>1. share \in Shares /\ pc = "share" /\ exit = "none"
      BY <1>0, <1>1 DEF StartShare, SharesInOrder
    <2>2. CASE cancelled /\ Exit("canceled") /\ UNCHANGED outcome
      BY <1>0, <1>1, <2>1, <2>2 DEF StartShare, Exit, SharesInOrder, Trying
    <2>3. CASE Conclude("invalid_blob") /\ UNCHANGED exit
      BY <1>0, <1>1, <2>1, <2>3, ConcludeAt DEF StartShare, SharesInOrder, Trying
    <2>4. CASE pc' = "endpoint" /\ UNCHANGED <<outcome, exit>>
      BY <1>0, <1>1, <2>1, <2>4 DEF StartShare, SharesInOrder, Trying
    <2> QED
      BY <1>1, <2>2, <2>3, <2>4 DEF StartShare
  <1>2. CASE TryUnseal
    <2>1. share \in Shares /\ endpoint \in Servers
      BY <1>0, <1>2 DEF TryUnseal, SharesInOrder, Trying
    <2>2. \A e \in Servers, s \in Shares : s # share => tried'[<<e, s>>] = tried[<<e, s>>]
      BY <1>0, <1>2, <2>1, BecomeAt DEF TryUnseal
    <2> QED
      BY <1>0, <1>2, <2>1, <2>2 DEF TryUnseal, SharesInOrder, Trying
  <1>3. CASE Receive \/ RPCFails
    <2>1. share \in Shares /\ endpoint \in Servers
      BY <1>0, <1>3 DEF Receive, RPCFails, SharesInOrder, EndpointsInOrder, Trying
    <2>2. \A e \in Servers, s \in Shares : s # share => tried'[<<e, s>>] = tried[<<e, s>>]
      BY <1>0, <1>3, <2>1, BecomeAt DEF Receive, RPCFails
    <2>3. /\ pc = "waiting" /\ pc' \in {"judge", "endpoint"}
          /\ UNCHANGED <<share, outcome, exit>>
      BY <1>3 DEF Receive, RPCFails
    <2> QED
      BY <1>0, <2>1, <2>2, <2>3 DEF SharesInOrder, Trying
  <1>4. CASE EndpointsDone \/ Judge \/ StartMount \/ EndMount
    <2>1. /\ pc \in Trying /\ share \in Shares
          /\ UNCHANGED <<share, exit, tried>>
      BY <1>0, <1>4 DEF EndpointsDone, Judge, StartMount, EndMount, SharesInOrder, Trying
    <2>2. CASE UNCHANGED outcome /\ pc' \in {"judge", "mount", "mounting"}
      BY <1>0, <2>1, <2>2 DEF SharesInOrder, Trying
    <2>3. ASSUME NEW res \in Outcomes, Conclude(res)
          PROVE SharesInOrder'
      BY <1>0, <2>1, <2>3, ConcludeAt DEF SharesInOrder, Trying, Outcomes
    <2> QED
      BY <1>4, <2>2, <2>3 DEF EndpointsDone, Judge, StartMount, EndMount, Outcomes
  <1>5. CASE Report
    <2>1. share \in Shares /\ pc = "report" /\ exit = "none" /\ UNCHANGED <<outcome, tried>>
      BY <1>0, <1>5 DEF Report, SharesInOrder
    <2>2. CASE share' = share + 1 /\ pc' = "share" /\ UNCHANGED exit
      BY <1>0, <2>1, <2>2 DEF SharesInOrder, Trying
    <2>3. CASE Exit("output_error") /\ UNCHANGED share
      BY <1>0, <2>1, <2>3 DEF SharesInOrder, Trying, Exit
    <2> QED
      BY <1>5, <2>2, <2>3 DEF Report
  <1>6. CASE Finish
    <2>1. /\ pc' = "exited" /\ exit' # "none" /\ pc = "share"
          /\ UNCHANGED <<share, outcome, tried>>
      BY <1>6 DEF Finish, Exit
    <2> QED
      BY <1>0, <2>1 DEF SharesInOrder, Trying
  <1>7. CASE Quiet
    BY <1>0, <1>7, QuietStep DEF SharesInOrder
  <1> QED
    BY <1>1, <1>2, <1>3, <1>4, <1>5, <1>6, <1>7, Cases DEF Step

LEMMA EndpointsStep == IInv /\ [Next]_vars => EndpointsInOrder'
  <1> SUFFICES ASSUME IInv, [Next]_vars PROVE EndpointsInOrder'
    OBVIOUS
  <1>0. TypeOK /\ SharesInOrder /\ EndpointsInOrder /\ BytesSound
    BY DEF IInv
  <1>a. endpoint \in 1..NumServers + 1 /\ share \in 1..NumShares + 1
    BY <1>0 DEF TypeOK
  <1> USE Sizes
  <1>1. CASE StartShare
    <2>1. /\ share \in Shares /\ pc = "share" /\ plaintext = None
          /\ \A e \in Servers : tried[<<e, share>>] = "none"
          /\ UNCHANGED <<share, tried>>
      BY <1>0, <1>1 DEF StartShare, SharesInOrder, EndpointsInOrder
    <2>2. CASE pc' \in {"exited", "report"} /\ plaintext' = plaintext
      BY <2>1, <2>2 DEF EndpointsInOrder, Trying
    <2>3. CASE pc' = "endpoint" /\ endpoint' = 1 /\ plaintext' = None
      BY <2>1, <2>3 DEF EndpointsInOrder, Trying, Current
    <2> QED
      BY <1>1, <2>2, <2>3 DEF StartShare, Exit, Conclude
  <1>2. CASE TryUnseal
    <2>1. share \in Shares /\ endpoint \in Servers /\ pc = "endpoint" /\ pc' = "waiting"
      BY <1>0, <1>2 DEF TryUnseal, SharesInOrder, Trying
    <2>2. \A e \in Servers : tried'[<<e, share>>] = IF e = endpoint THEN "asked" ELSE tried[<<e, share>>]
      BY <1>0, <1>2, <2>1, BecomeAt DEF TryUnseal
    <2>3. UNCHANGED <<share, endpoint, plaintext, err, cancelled>>
      BY <1>2 DEF TryUnseal
    <2> QED
      BY <1>0, <2>1, <2>2, <2>3 DEF EndpointsInOrder, Trying, Current
  <1>3. CASE EndpointsDone
    <2>1. /\ pc = "endpoint" /\ pc' = "judge" /\ (cancelled \/ endpoint \notin Servers)
          /\ share' = share /\ endpoint' = endpoint /\ plaintext' = plaintext /\ tried' = tried
          /\ cancelled => cancelled'
      BY <1>3 DEF EndpointsDone
    <2>2. /\ \A e \in Servers : /\ e < endpoint => tried[<<e, share>>] = "lost"
                                /\ e > endpoint => tried[<<e, share>>] = "none"
      BY <1>a, <1>0, <2>1 DEF EndpointsInOrder, Trying
    <2>3. plaintext = None /\ (endpoint \in Servers => tried[Current] = "none")
      BY <1>0, <2>1 DEF EndpointsInOrder
    <2>4. cancelled' \/ endpoint \notin Servers
      BY <2>1
    <2>5. UNCHANGED Current /\ (endpoint' \in Servers => tried'[Current'] = "none")
      BY <2>1, <2>3 DEF Current
    <2>6. \A e \in Servers : /\ e < endpoint' => tried'[<<e, share'>>] = "lost"
                             /\ e > endpoint' => tried'[<<e, share'>>] = "none"
      BY <1>a, <2>1, <2>2
    <2> QED
      BY <2>1, <2>3, <2>4, <2>5, <2>6 DEF EndpointsInOrder, Trying
  <1>4. CASE Receive
    <2>1. share \in Shares /\ endpoint \in Servers /\ pc = "waiting"
      BY <1>0, <1>4 DEF Receive, SharesInOrder, EndpointsInOrder, Trying
    <2>2. CASE /\ Usable(answer) /\ plaintext' = answer /\ err' = FALSE
               /\ pc' = "judge" /\ Become(Current, "answered") /\ UNCHANGED <<share, endpoint>>
      <3>1. \A e \in Servers : tried'[<<e, share>>] = IF e = endpoint THEN "answered" ELSE tried[<<e, share>>]
        BY <1>0, <2>1, <2>2, BecomeAt
      <3> QED
        BY <1>0, <2>1, <2>2, <3>1 DEF EndpointsInOrder, Trying, Current, Usable
    <2>3. CASE /\ plaintext' = None /\ pc' = "endpoint" /\ endpoint' = endpoint + 1
               /\ Become(Current, "lost") /\ UNCHANGED share
      <3>1. \A e \in Servers : tried'[<<e, share>>] = IF e = endpoint THEN "lost" ELSE tried[<<e, share>>]
        BY <1>0, <2>1, <2>3, BecomeAt
      <3> QED
        BY <1>0, <1>a, <2>1, <2>3, <3>1 DEF EndpointsInOrder, Trying, Current
    <2> QED
      BY <1>4, <2>2, <2>3 DEF Receive, Usable
  <1>5. CASE RPCFails
    <2>1. share \in Shares /\ endpoint \in Servers /\ pc = "waiting"
      BY <1>0, <1>5 DEF RPCFails, SharesInOrder, EndpointsInOrder, Trying
    <2>2. \A e \in Servers : tried'[<<e, share>>] = IF e = endpoint THEN "lost" ELSE tried[<<e, share>>]
      BY <1>0, <1>5, <2>1, BecomeAt DEF RPCFails
    <2>3. plaintext' = None /\ pc' = "endpoint" /\ endpoint' = endpoint + 1 /\ UNCHANGED share
      BY <1>5 DEF RPCFails
    <2> QED
      BY <1>0, <1>a, <2>1, <2>2, <2>3 DEF EndpointsInOrder, Trying, Current
  <1>6. CASE Judge \/ StartMount \/ EndMount
    <2>1. /\ pc \in {"judge", "mount", "mounting"}
          /\ pc' \in {"report", "mount", "mounting"}
          /\ pc' # "report" => plaintext # None
          /\ share' = share /\ endpoint' = endpoint /\ plaintext' = plaintext /\ tried' = tried
          /\ ~err => ~err'
      BY <1>0, <1>6 DEF Judge, StartMount, EndMount, Conclude, EndpointsInOrder
    <2>2. plaintext # None => /\ ~err /\ endpoint \in Servers /\ tried[Current] = "answered"
      BY <1>0 DEF EndpointsInOrder
    <2>3. CASE pc' = "report"
      BY <2>1, <2>2, <2>3 DEF EndpointsInOrder, Trying, Current
    <2>4. CASE pc' \in {"mount", "mounting"}
      <3>1. /\ \A e \in Servers : /\ e < endpoint => tried[<<e, share>>] = "lost"
                                  /\ e > endpoint => tried[<<e, share>>] = "none"
        BY <1>0, <2>1 DEF EndpointsInOrder, Trying
      <3>2. UNCHANGED <<Current, endpoint, tried, plaintext>>
        BY <2>1 DEF Current
      <3>3. \A e \in Servers : /\ e < endpoint' => tried'[<<e, share'>>] = "lost"
                               /\ e > endpoint' => tried'[<<e, share'>>] = "none"
        BY <1>a, <2>1, <3>1
      <3>4. plaintext' # None => ~err' /\ endpoint' \in Servers /\ tried'[Current'] = "answered"
        BY <2>1, <2>2, <3>2
      <3> QED
        BY <2>1, <2>4, <3>2, <3>3, <3>4 DEF EndpointsInOrder
    <2> QED
      BY <2>1, <2>3, <2>4
  <1>7. CASE Report \/ Finish
    <2>1. pc' \in {"share", "exited"} /\ plaintext' = None
      BY <1>0, <1>7 DEF Report, Finish, Exit, EndpointsInOrder
    <2> QED
      BY <2>1 DEF EndpointsInOrder, Trying
  <1>8. CASE Quiet
    BY <1>0, <1>8, QuietStep DEF EndpointsInOrder, Current
  <1> QED
    BY <1>1, <1>2, <1>3, <1>4, <1>5, <1>6, <1>7, <1>8, Cases DEF Step

LEMMA BytesStep == IInv /\ [Next]_vars => BytesSound'
  <1> SUFFICES ASSUME IInv, [Next]_vars PROVE BytesSound'
    OBVIOUS
  <1>0. TypeOK /\ SharesInOrder /\ EndpointsInOrder /\ BytesSound
    BY DEF IInv
  <1> USE Sizes
  <1>1. CASE StartShare
    <2>1. /\ pc = "share" /\ plaintext = None /\ plaintext' = None
          /\ pc' \in {"exited", "report", "endpoint"}
      BY <1>0, <1>1 DEF StartShare, Exit, Conclude, EndpointsInOrder
    <2> QED
      BY <2>1 DEF BytesSound, Shares
  <1>2. CASE TryUnseal
    <2>1. pc' = "waiting" /\ answer' \notin Shares /\ plaintext' = None
      BY <1>0, <1>2 DEF TryUnseal, EndpointsInOrder, NoAnswer, Shares
    <2> QED
      BY <2>1 DEF BytesSound, Shares
  <1>3. CASE Receive
    <2>1. /\ pc = "waiting" /\ pc' \in {"judge", "endpoint"} /\ plaintext' = answer
          /\ answer # None => UNCHANGED endpoint
          /\ UNCHANGED <<share, call>>
      BY <1>3 DEF Receive, Usable
    <2>2. plaintext' \in Shares => call'[Current'] = None
      BY <1>0, <2>1 DEF BytesSound, Shares, Current
    <2> QED
      BY <2>1, <2>2 DEF BytesSound
  <1>4. CASE RPCFails
    BY <1>4 DEF RPCFails, BytesSound, Shares
  <1>5. CASE EndpointsDone \/ Judge \/ StartMount \/ EndMount
    <2>1. /\ pc' \in {"judge", "report", "mount", "mounting"}
          /\ UNCHANGED <<share, endpoint, plaintext, call>>
      BY <1>5 DEF EndpointsDone, Judge, StartMount, EndMount, Conclude
    <2> QED
      BY <1>0, <2>1 DEF BytesSound, Current
  <1>6. CASE Report \/ Finish
    <2>1. plaintext' = None /\ pc' \in {"share", "exited"}
      BY <1>0, <1>6 DEF Report, Finish, Exit, EndpointsInOrder
    <2> QED
      BY <2>1 DEF BytesSound, Shares
  <1>7. CASE Cancel \/ OperatorApproves \/ LeaseExpires \/ UNCHANGED vars
    <2>1. UNCHANGED <<pc, share, endpoint, plaintext, answer, result, call>>
      BY <1>7 DEF Cancel, OperatorApproves, LeaseExpires, G!Approve, G!Expire
    <2> QED
      BY <1>0, <2>1 DEF BytesSound, Current
  <1>8. ASSUME NEW c \in Calls, Respond(c)
        PROVE  BytesSound'
    <2>1. /\ UNCHANGED client /\ call[c] # None
          /\ call' = [call EXCEPT ![c] = None]
          /\ \A d \in Calls : d # c => result'[d] = result[d] /\ call'[d] = call[d]
          /\ call'[c] = None
      BY <1>0, <1>8 DEF Respond, G!Return, TypeOK
    <2>2. ASSUME pc = "waiting" PROVE Current \in Calls
      BY <1>0, <2>2, Pairs DEF EndpointsInOrder, SharesInOrder, Trying, Current
    <2>3. ASSUME pc = "waiting", answer' \in Shares
          PROVE  answer' = share /\ result'[Current] = "Approved" /\ call'[Current] = None
      <3>1. CASE c # Current
        BY <1>0, <1>8, <2>1, <2>2, <2>3, <3>1 DEF Respond, Awaited, BytesSound
      <3>2. CASE c = Current
        <4>1. answer' = Secret(c[2]) /\ result' = [result EXCEPT ![c] = "Approved"]
          BY <1>8, <2>3, <3>2 DEF Respond, Awaited, Shares, G!Return
        <4>2. c[2] = share
          BY <3>2 DEF Current
        <4>3. result'[c] = "Approved"
          BY <1>0, <4>1 DEF TypeOK
        <4> QED
          BY <2>1, <2>3, <3>2, <4>1, <4>2, <4>3 DEF Secret, Shares
      <3> QED
        BY <3>1, <3>2
    <2>4. ASSUME plaintext \in Shares PROVE call'[Current] = None
      <3>1. Current \in Calls
        BY <1>0, <2>4, Pairs DEF EndpointsInOrder, SharesInOrder, Trying, Current, Shares
      <3> QED
        BY <1>0, <2>1, <2>4, <3>1 DEF BytesSound
    <2> QED
      BY <1>0, <2>1, <2>3, <2>4 DEF BytesSound, Current
  <1> QED
    BY <1>1, <1>2, <1>3, <1>4, <1>5, <1>6, <1>7, <1>8 DEF Next, Step

LEMMA RememberedStep == IInv /\ [Next]_vars => Remembered'
  <1> SUFFICES ASSUME IInv, [Next]_vars PROVE Remembered'
    OBVIOUS
  <1>0. TypeOK /\ SharesInOrder /\ Remembered
    BY DEF IInv
  <1> USE Sizes
  <1>1. CASE StartShare \/ EndpointsDone \/ Judge \/ StartMount \/ EndMount
    <2>1. /\ UNCHANGED <<share, failed, reported, json, empty>> /\ share \in Shares
          /\ pc # "exited"
      BY <1>0, <1>1 DEF StartShare, EndpointsDone, Judge, StartMount, EndMount, SharesInOrder, Trying
    <2>2. \A s \in Shares : s < share => outcome'[s] = outcome[s]
      BY <1>0, <1>1, <2>1 DEF StartShare, EndpointsDone, Judge, StartMount, EndMount, Conclude, TypeOK
    <2> QED
      BY <1>0, <2>1, <2>2 DEF Remembered
  <1>2. CASE TryUnseal \/ Receive \/ RPCFails
    BY <1>0, <1>2 DEF TryUnseal, Receive, RPCFails, Remembered
  <1>3. CASE Report
    <2>1. CASE pc' = "exited"
      BY <2>1 DEF Remembered
    <2>2. CASE share' = share + 1 /\ reported' = IF json THEN reported ELSE reported \cup {share}
      <3>1. /\ share \in Shares /\ pc = "report" /\ UNCHANGED <<json, empty, outcome>>
            /\ failed' = (failed \/ outcome[share] # "mounted")
        BY <1>0, <1>3 DEF Report, SharesInOrder
      <3>2. failed' <=> \E s \in Shares : s < share + 1 /\ outcome[s] # "mounted"
        <4>1. failed <=> \E s \in Shares : s < share /\ outcome[s] # "mounted"
          BY <1>0, <3>1 DEF Remembered
        <4>2. \A s \in Shares : s < share + 1 <=> s < share \/ s = share
          BY <3>1 DEF Shares
        <4> QED
          BY <3>1, <4>1, <4>2
      <3>3. ~json => reported' = {s \in Shares : s < share + 1}
        BY <1>0, <2>2, <3>1 DEF Remembered, Shares
      <3>4. json => reported' = {}
        BY <1>0, <2>2, <3>1 DEF Remembered
      <3> QED
        BY <2>2, <3>1, <3>2, <3>3, <3>4 DEF Remembered
    <2> QED
      BY <1>3, <2>1, <2>2 DEF Report, Exit
  <1>4. CASE Finish
    BY <1>4 DEF Finish, Exit, Remembered
  <1>5. CASE Quiet
    BY <1>0, <1>5, QuietStep DEF Remembered
  <1> QED
    BY <1>1, <1>2, <1>3, <1>4, <1>5, Cases DEF Step

LEMMA ExitStep == IInv /\ [Next]_vars => ExitHonest'
  <1> SUFFICES ASSUME IInv, [Next]_vars PROVE ExitHonest'
    OBVIOUS
  <1>0. TypeOK /\ SharesInOrder /\ Remembered /\ ExitHonest
    BY DEF IInv
  <1> USE Sizes
  <1>1. CASE Finish
    <2>1. /\ pc = "share" /\ share \notin Shares /\ share \in 1..NumShares + 1
          /\ outcome' = outcome
          /\ (failed <=> \E s \in Shares : s < share /\ outcome[s] # "mounted")
      BY <1>0, <1>1 DEF Finish, TypeOK, Remembered
    <2>2. \A s \in Shares : s < share
      BY <2>1
    <2>3. \A s \in Shares : outcome[s] # "none"
      BY <1>0, <2>2 DEF SharesInOrder
    <2>4. failed <=> \E s \in Shares : outcome[s] # "mounted"
      BY <2>1, <2>2
    <2>5. CASE exit' = "output_error"
      BY <2>5 DEF ExitHonest
    <2>6. CASE exit' = (IF failed THEN "failed" ELSE "success") /\ reported' = Shares
      BY <2>1, <2>3, <2>4, <2>6 DEF ExitHonest
    <2> QED
      BY <1>1, <2>5, <2>6 DEF Finish, Exit
  <1>2. CASE (Step /\ ~Finish) \/ Receive \/ RPCFails \/ EndMount
    <2>1. exit = "none" /\ exit' \in {exit, "canceled", "output_error"}
      BY <1>0, <1>2 DEF Step, StartShare, TryUnseal, EndpointsDone, Judge, StartMount, Report,
                        Receive, RPCFails, EndMount, Exit, Conclude, SharesInOrder
    <2> QED
      BY <2>1 DEF ExitHonest
  <1>3. CASE Quiet
    BY <1>0, <1>3, QuietStep DEF ExitHonest
  <1> QED
    BY <1>1, <1>2, <1>3, Cases

LEMMA SecretStep == IInv /\ [Next]_vars => SecretFromApproval'
  <1> SUFFICES ASSUME IInv, [Next]_vars PROVE SecretFromApproval'
    OBVIOUS
  <1>0. TypeOK /\ SharesInOrder /\ EndpointsInOrder /\ BytesSound /\ SecretFromApproval
    BY DEF IInv
  <1> USE Sizes
  <1>1. CASE StartShare \/ TryUnseal \/ RPCFails \/ Report \/ Finish
    <2>1. plaintext' = None
      BY <1>0, <1>1 DEF StartShare, TryUnseal, RPCFails, Report, Finish, EndpointsInOrder
    <2> QED
      BY <2>1 DEF SecretFromApproval, Shares
  <1>2. CASE Receive
    <2>1. /\ pc = "waiting" /\ plaintext' = answer /\ endpoint \in Servers /\ share \in Shares
          /\ UNCHANGED <<share, result>>
      BY <1>0, <1>2 DEF Receive, EndpointsInOrder, SharesInOrder, Trying
    <2>2. ASSUME answer \in Shares
          PROVE  /\ answer = share /\ result[Current] = "Approved"
                 /\ pc' = "judge" /\ endpoint' = endpoint /\ tried'[Current] = "answered"
      <3>1. Usable(answer)
        BY <2>2 DEF Usable, Shares
      <3>2. pc' = "judge" /\ Become(Current, "answered") /\ endpoint' = endpoint
        BY <1>2, <3>1 DEF Receive
      <3>3. tried'[<<endpoint, share>>] = "answered"
        BY <1>0, <2>1, <3>2, BecomeAt
      <3> QED
        BY <1>0, <2>1, <2>2, <3>2, <3>3 DEF BytesSound, Current
    <2> QED
      BY <2>1, <2>2 DEF SecretFromApproval, Current
  <1>3. CASE EndpointsDone \/ Judge \/ StartMount \/ EndMount
    <2>1. /\ pc' \in {"judge", "mount", "mounting", "report"}
          /\ UNCHANGED <<share, endpoint, plaintext, tried, result>>
      BY <1>3 DEF EndpointsDone, Judge, StartMount, EndMount, Conclude
    <2> QED
      BY <1>0, <2>1 DEF SecretFromApproval, Current
  <1>4. CASE Cancel \/ OperatorApproves \/ LeaseExpires \/ UNCHANGED vars
    <2>1. UNCHANGED <<pc, share, endpoint, plaintext, tried, result>>
      BY <1>4 DEF Cancel, OperatorApproves, LeaseExpires, G!Approve, G!Expire
    <2> QED
      BY <1>0, <2>1 DEF SecretFromApproval, Current
  <1>5. ASSUME NEW c \in Calls, Respond(c)
        PROVE  SecretFromApproval'
    <2>1. /\ UNCHANGED client /\ call[c] # None
          /\ \A d \in Calls : d # c => result'[d] = result[d]
      BY <1>0, <1>5 DEF Respond, G!Return, TypeOK
    <2>2. ASSUME plaintext \in Shares PROVE result'[Current] = result[Current]
      <3>1. Current \in Calls
        BY <1>0, <2>2, Pairs DEF EndpointsInOrder, SharesInOrder, Trying, Current, Shares
      <3> QED
        BY <1>0, <2>1, <2>2, <3>1 DEF BytesSound
    <2> QED
      BY <1>0, <2>1, <2>2 DEF SecretFromApproval, Current
  <1> QED
    BY <1>1, <1>2, <1>3, <1>4, <1>5 DEF Next, Step

(* What an outcome says about the calls made for its share. *)
OutcomeSound(s) ==
  /\ outcome[s] = "unseal_failed" =>
       /\ \A e \in Servers : tried[<<e, s>>] # "answered"
       /\ cancelled \/ \A e \in Servers : tried[<<e, s>>] = "lost"
  /\ outcome[s] \in {"invalid_passphrase", "mounted", "mount_failed"} =>
       \E e \in Servers : tried[<<e, s>>] = "answered"

TriedInOrder(s) ==
  \A e, f \in Servers : f < e /\ tried[<<e, s>>] # "none" => tried[<<f, s>>] = "lost"

LEMMA FailoverStep == IInv /\ [Next]_vars => FailoverInOrder'
  <1> SUFFICES ASSUME IInv, [Next]_vars, NEW s \in Shares
               PROVE  TriedInOrder(s)' /\ OutcomeSound(s)'
    BY DEF FailoverInOrder, TriedInOrder, OutcomeSound
  <1>0. TypeOK /\ SharesInOrder /\ EndpointsInOrder
    BY DEF IInv
  <1>a. TriedInOrder(s) /\ OutcomeSound(s)
    BY DEF IInv, FailoverInOrder, TriedInOrder, OutcomeSound
  <1>b. cancelled => cancelled'
    BY QuietStep, Cases DEF Step, StartShare, TryUnseal, EndpointsDone, Receive, RPCFails, Judge,
                            StartMount, EndMount, Report, Finish
  <1>c. endpoint \in 1..NumServers + 1 /\ share \in 1..NumShares + 1
    BY <1>0 DEF TypeOK
  <1> USE Sizes
  <1>1. CASE StartShare
    <2>1. share \in Shares /\ pc = "share" /\ tried' = tried
      BY <1>1 DEF StartShare
    <2>2. outcome' = outcome \/ Conclude("invalid_blob")
      BY <1>1 DEF StartShare
    <2>3. outcome'[s] = outcome[s] \/ outcome'[s] = "invalid_blob"
      BY <1>0, <2>1, <2>2, ConcludeAt
    <2> QED
      BY <1>a, <1>b, <2>1, <2>3 DEF TriedInOrder, OutcomeSound
  <1>2. CASE TryUnseal \/ Receive \/ RPCFails
    <2>1. /\ share \in Shares /\ endpoint \in Servers /\ pc \in Trying
          /\ outcome' = outcome
          /\ \E fate \in {"asked", "answered", "lost"} : Become(Current, fate)
      BY <1>0, <1>2 DEF TryUnseal, Receive, RPCFails, SharesInOrder, EndpointsInOrder, Trying
    <2>2. /\ outcome[share] = "none"
          /\ \A e \in Servers : /\ e < endpoint => tried[<<e, share>>] = "lost"
                                /\ e > endpoint => tried[<<e, share>>] = "none"
      BY <1>0, <1>c, <2>1 DEF SharesInOrder, EndpointsInOrder
    <2>3. CASE s # share
      <3>1. \A e \in Servers : tried'[<<e, s>>] = tried[<<e, s>>]
        BY <1>0, <2>1, <2>3, BecomeAt
      <3> QED
        BY <1>a, <1>b, <2>1, <3>1 DEF TriedInOrder, OutcomeSound
    <2>4. CASE s = share
      <3>1. \A e \in Servers : e # endpoint => tried'[<<e, s>>] = tried[<<e, s>>]
        BY <1>0, <2>1, <2>4, BecomeAt
      <3>2. TriedInOrder(s)'
        <4> SUFFICES ASSUME NEW e \in Servers, NEW f \in Servers, f < e, tried'[<<e, s>>] # "none"
                     PROVE  tried'[<<f, s>>] = "lost"
          BY DEF TriedInOrder
        <4>1. ~(e > endpoint)
          BY <1>c, <2>1, <2>2, <2>4, <3>1
        <4>2. f < endpoint
          BY <1>c, <4>1
        <4>3. tried[<<f, s>>] = "lost" /\ f # endpoint
          BY <1>c, <2>2, <2>4, <4>2
        <4> QED
          BY <3>1, <4>3
      <3> QED
        BY <2>1, <2>2, <2>4, <3>2 DEF OutcomeSound
    <2> QED
      BY <2>3, <2>4
  <1>3. CASE EndpointsDone
    BY <1>3, <1>a, <1>b DEF EndpointsDone, TriedInOrder, OutcomeSound
  <1>4. CASE Judge \/ StartMount \/ EndMount
    <2>1. share \in Shares /\ tried' = tried /\ pc \in {"judge", "mount", "mounting"}
      BY <1>0, <1>4 DEF Judge, StartMount, EndMount, SharesInOrder, Trying
    <2>2. CASE outcome'[s] = outcome[s]
      BY <1>a, <1>b, <2>1, <2>2 DEF TriedInOrder, OutcomeSound
    <2>3. CASE outcome'[s] # outcome[s]
      <3>1. s = share
        BY <1>0, <1>4, <2>1, <2>3, ConcludeAt DEF Judge, StartMount, EndMount
      <3>2. CASE plaintext = None
        <4>1. pc = "judge" /\ Conclude("unseal_failed")
          BY <1>0, <1>4, <2>3, <3>2 DEF Judge, StartMount, EndMount, EndpointsInOrder
        <4>2. outcome'[s] = "unseal_failed"
          BY <1>0, <2>1, <3>1, <4>1, ConcludeAt
        <4>3. \A e \in Servers : /\ e < endpoint => tried[<<e, s>>] = "lost"
                                 /\ e > endpoint => tried[<<e, s>>] = "none"
          BY <1>0, <1>c, <2>1, <3>1 DEF EndpointsInOrder, Trying
        <4>4. /\ endpoint \in Servers => tried[<<endpoint, s>>] = "none"
              /\ cancelled \/ endpoint \notin Servers
          BY <1>0, <3>1, <3>2, <4>1 DEF EndpointsInOrder, Current
        <4>5. \A e \in Servers : tried[<<e, s>>] # "answered"
          BY <1>c, <4>3, <4>4
        <4>6. endpoint \notin Servers => \A e \in Servers : tried[<<e, s>>] = "lost"
          BY <1>c, <4>3
        <4> QED
          BY <1>a, <1>b, <2>1, <4>2, <4>4, <4>5, <4>6 DEF TriedInOrder, OutcomeSound
      <3>3. CASE plaintext # None
        <4>1. ~err /\ endpoint \in Servers /\ tried[<<endpoint, s>>] = "answered"
          BY <1>0, <3>1, <3>3 DEF EndpointsInOrder, Current
        <4>2. \E res \in Outcomes \ {"unseal_failed"} : Conclude(res)
          BY <1>4, <2>3, <3>3, <4>1 DEF Judge, StartMount, EndMount, Outcomes
        <4>3. outcome'[s] # "unseal_failed"
          BY <1>0, <2>1, <3>1, <4>2, ConcludeAt
        <4> QED
          BY <1>a, <2>1, <4>1, <4>3 DEF TriedInOrder, OutcomeSound
      <3> QED
        BY <3>2, <3>3
    <2> QED
      BY <2>2, <2>3
  <1>5. CASE Report \/ Finish
    BY <1>5, <1>a, <1>b DEF Report, Finish, TriedInOrder, OutcomeSound
  <1>6. CASE Quiet
    BY <1>6, <1>a, <1>b, QuietStep DEF TriedInOrder, OutcomeSound
  <1> QED
    BY <1>1, <1>2, <1>3, <1>4, <1>5, <1>6, Cases DEF Step

-----------------------------------------------------------------------------
(* IInv is an inductive invariant of the command. *)
THEOREM Invariant == Spec => []IInv
  <1>1. IInv /\ [Next]_vars => IInv'
    BY TypeStep, SharesStep, EndpointsStep, BytesStep, RememberedStep, ExitStep, SecretStep,
       FailoverStep DEF IInv
  <1> QED
    BY <1>1, InitIInv, PTL DEF Spec

(* The state stays in its types: client.go keeps one share and one endpoint  *)
(* index in range, and one outcome per share.                               *)
THEOREM TypeCorrect == Spec => []TypeOK
  <1>1. IInv => TypeOK
    BY DEF IInv
  <1> QED
    BY <1>1, Invariant, PTL

(* client.go:85-111: the exit status and the printed results tell what became *)
(* of the shares, for every number of shares and endpoints.                  *)
THEOREM ExitCorrect == Spec => []ExitHonest
  <1>1. IInv => ExitHonest
    BY DEF IInv
  <1> QED
    BY <1>1, Invariant, PTL

(* client.go:59-83: a passphrase in the client's memory was approved for this *)
(* share by the server asked last, whatever answers were abandoned before.    *)
THEOREM SecretCorrect == Spec => []SecretFromApproval
  <1>1. IInv => SecretFromApproval
    BY DEF IInv
  <1> QED
    BY <1>1, Invariant, PTL

(* client.go:60-71: failover asks in order, stops at an answer and gives up   *)
(* only at the end.                                                         *)
THEOREM FailoverCorrect == Spec => []FailoverInOrder
  <1>1. IInv => FailoverInOrder
    BY DEF IInv
  <1> QED
    BY <1>1, Invariant, PTL

-----------------------------------------------------------------------------
(* How long the command takes: what CommandEnds rests on besides fairness *)

ShareSteps == 2 * NumServers + 7
MaxSteps == NumShares * ShareSteps + 2 * NumServers + 6

(* A bound on the steps left for the current share: two for each endpoint    *)
(* not yet tried, and those of the mount.                                   *)
LeftOfShare ==
  CASE pc = "share"    -> 2 * NumServers + 6
    [] pc = "endpoint" -> 2 * (NumServers + 1 - endpoint) + 5
    [] pc = "waiting"  -> 2 * (NumServers + 1 - endpoint) + 4
    [] pc = "judge"    -> 4
    [] pc = "mount"    -> 3
    [] pc = "mounting" -> 2
    [] OTHER           -> 1

StepsLeft ==
  IF pc = "exited" THEN 0 ELSE (NumShares + 1 - share) * ShareSteps + LeftOfShare

(* Each step of the command uses up one at least, and nothing the servers,   *)
(* the operator, the network or a signal do gives any back: neither failover *)
(* nor an empty answer can send it round in a circle, and with n shares and  *)
(* m endpoints it is over after n(2m+7) + 2m+6 steps.                       *)
CommandAdvances ==
  UNCHANGED client \/ StepsLeft' < StepsLeft

StepsBounded == StepsLeft \in 0..MaxSteps

LEMMA StepsInRange == IInv => StepsBounded /\ (pc # "exited" => StepsLeft > 0)
  <1> SUFFICES ASSUME IInv, pc # "exited" PROVE StepsLeft \in 1..MaxSteps
    BY Sizes DEF StepsBounded, StepsLeft, MaxSteps, ShareSteps
  <1> DEFINE later == NumShares + 1 - share
  <1>1. /\ later \in 0..NumShares /\ NumServers + 1 - endpoint \in 0..NumServers
        /\ ShareSteps \in Nat /\ NumShares \in Nat /\ NumServers \in Nat
    BY Sizes DEF IInv, TypeOK, ShareSteps
  <1>2. LeftOfShare \in 1..2 * NumServers + 6
    <2>1. pc \in {"share", "endpoint", "waiting", "judge", "mount", "mounting", "report"}
      BY DEF IInv, TypeOK
    <2>2. pc = "waiting" => endpoint \in 1..NumServers
      BY Sizes DEF IInv, EndpointsInOrder
    <2> QED
      BY <1>1, <2>1, <2>2 DEF LeftOfShare, IInv, TypeOK
  <1>3. later * ShareSteps \in 0..NumShares * ShareSteps
    BY <1>1
  <1>4. StepsLeft = later * ShareSteps + LeftOfShare
    BY DEF StepsLeft
  <1> HIDE DEF later
  <1>5. NumShares * ShareSteps \in Nat
    BY <1>1
  <1> QED
    BY <1>1, <1>2, <1>3, <1>4, <1>5 DEF MaxSteps

(* A step within a share. *)
LEMMA SameShare ==
  ASSUME IInv, pc # "exited", pc' # "exited", UNCHANGED share, LeftOfShare' < LeftOfShare,
         LeftOfShare \in Nat, LeftOfShare' \in Nat
  PROVE  StepsLeft' < StepsLeft
  <1>1. (NumShares + 1 - share) * ShareSteps \in Nat
    BY Sizes DEF IInv, TypeOK, ShareSteps
  <1> QED
    BY <1>1 DEF StepsLeft, ShareSteps

LEMMA AdvanceStep == IInv /\ [Next]_vars => CommandAdvances
  <1> SUFFICES ASSUME IInv, [Next]_vars PROVE CommandAdvances
    OBVIOUS
  <1>t. NumServers \in Nat /\ endpoint \in Nat /\ share \in 1..NumShares + 1 /\ ShareSteps \in Nat
    BY Sizes DEF IInv, TypeOK, ShareSteps
  <1>0. CASE pc # "exited" /\ pc' = "exited"
    <2>1. StepsLeft' = 0 /\ StepsLeft > 0
      BY <1>0, StepsInRange DEF StepsLeft
    <2> QED
      BY <2>1 DEF CommandAdvances
  <1>1. CASE StartShare /\ pc' # "exited"
    BY <1>1, <1>t, SameShare DEF StartShare, Exit, Conclude, LeftOfShare, CommandAdvances
  <1>2. CASE TryUnseal
    <2>1. /\ pc = "endpoint" /\ pc' = "waiting" /\ UNCHANGED <<share, endpoint>>
          /\ NumServers + 1 - endpoint \in Nat
      BY <1>2, <1>t, Sizes DEF TryUnseal
    <2>2. /\ LeftOfShare = 2 * (NumServers + 1 - endpoint) + 5
          /\ LeftOfShare' = 2 * (NumServers + 1 - endpoint) + 4
      BY <2>1 DEF LeftOfShare
    <2> QED
      BY <2>1, <2>2, SameShare DEF CommandAdvances
  <1>3. CASE EndpointsDone
    <2>1. NumServers + 1 - endpoint >= 0
      BY <1>t DEF IInv, TypeOK
    <2> QED
      BY <1>3, <1>t, <2>1, SameShare DEF EndpointsDone, LeftOfShare, CommandAdvances
  <1>4. CASE Receive \/ RPCFails
    <2>1. NumServers + 1 - endpoint >= 1
      BY <1>4, <1>t, Sizes DEF Receive, RPCFails, IInv, EndpointsInOrder
    <2> QED
      BY <1>4, <1>t, <2>1, SameShare DEF Receive, RPCFails, LeftOfShare, CommandAdvances
  <1>5. CASE Judge \/ StartMount \/ EndMount
    BY <1>5, <1>t, SameShare DEF Judge, StartMount, EndMount, Conclude, LeftOfShare, CommandAdvances
  <1>6. CASE Report /\ pc' # "exited"
    <2> DEFINE later == NumShares + 1 - share
    <2>1. /\ StepsLeft = later * ShareSteps + 1
          /\ StepsLeft' = (NumShares + 1 - (share + 1)) * ShareSteps + (2 * NumServers + 6)
      BY <1>6 DEF Report, Exit, StepsLeft, LeftOfShare, ShareSteps
    <2>2. NumShares + 1 - (share + 1) = later - 1 /\ later \in Nat
      BY <1>t, Sizes
    <2>3. (later - 1) * ShareSteps = later * ShareSteps - ShareSteps /\ later * ShareSteps \in Nat
      BY <1>t, <2>2
    <2> HIDE DEF later
    <2> QED
      BY <1>t, <2>1, <2>2, <2>3 DEF ShareSteps, CommandAdvances
  <1>7. CASE Finish
    BY <1>0, <1>7 DEF Finish, Exit
  <1>8. CASE Quiet
    BY <1>8, QuietStep DEF CommandAdvances
  <1>9. StartShare \/ Report => pc # "exited"
    BY DEF StartShare, Report
  <1> QED
    BY <1>0, <1>1, <1>2, <1>3, <1>4, <1>5, <1>6, <1>7, <1>8, <1>9, Cases DEF Step

(* client.go:57-111: the command is over after a bounded number of steps of   *)
(* its own, whatever happens around it.                                     *)
THEOREM CommandBounded == Spec => []StepsBounded /\ [][CommandAdvances]_vars
  <1>1. IInv => StepsBounded
    BY StepsInRange
  <1>2. IInv /\ [Next]_vars => [CommandAdvances]_vars
    BY AdvanceStep
  <1> QED
    BY <1>1, <1>2, Invariant, PTL DEF Spec

-----------------------------------------------------------------------------
(* The servers the client meets are servers as KMSServer is proved to be     *)

(* What the gates of the servers go through is what the contract Gate        *)
(* allows, however often the client abandons a call and asks elsewhere; they *)
(* start with whatever approvals earlier runs have left.                    *)
THEOREM GatesKeepContract == Spec => [][G!Next]_(G!gateVars)
  <1>1. IInv /\ [Next]_vars => [G!Next]_(G!gateVars)
    <2> SUFFICES ASSUME IInv, Next PROVE G!Next \/ UNCHANGED gateState
      BY DEF vars, gateState, G!gateVars
    <2>1. CASE TryUnseal
      <3>1. Current \in Calls /\ endpoint \in Servers
        BY <2>1 DEF TryUnseal, Current, Calls, IInv, SharesInOrder, Trying
      <3>2. G!Call(Current, endpoint) \/ UNCHANGED gateState
        BY <2>1 DEF TryUnseal
      <3> QED BY <3>1, <3>2 DEF G!Next
    <2>2. CASE OperatorApproves
      BY <2>2 DEF OperatorApproves, G!Next
    <2>3. CASE LeaseExpires
      <3>1. PICK e \in leased : G!Expire({e})
        BY <2>3 DEF LeaseExpires
      <3>2. {e} \in SUBSET Servers
        BY <3>1 DEF IInv, TypeOK
      <3> QED BY <3>1, <3>2 DEF G!Next
    <2>4. ASSUME NEW c \in Calls, Respond(c) PROVE G!Next
      <3>1. \E res \in {"Approved", "Denied", "Error"} : G!Return(c, res)
        BY <2>4 DEF Respond
      <3> QED BY <3>1 DEF G!Next, G!Results
    <2>5. CASE \/ StartShare \/ EndpointsDone \/ Judge \/ StartMount \/ Report \/ Finish
               \/ Receive \/ RPCFails \/ EndMount \/ Cancel
      BY <2>5 DEF StartShare, EndpointsDone, Judge, StartMount, Report, Finish, Receive,
         RPCFails, EndMount, Cancel
    <2> QED BY <2>1, <2>2, <2>3, <2>4, <2>5 DEF Next, Step
  <1> QED BY <1>1, Invariant, PTL DEF Spec
=============================================================================
