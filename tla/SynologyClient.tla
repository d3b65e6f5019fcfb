--------------------------- MODULE SynologyClient ---------------------------
(***************************************************************************)
(* One run of `azath synology` (cmd/azath/client.go): for every share in     *)
(* turn it reads the sealed blob, asks the endpoints in order until one      *)
(* answers, and hands what it got to DSM's synoshare.                       *)
(*                                                                         *)
(* The servers behind the endpoints are those of KMSServer, seen from one   *)
(* device: each has a gate of its own, with its own approvals and leases.    *)
(* Their gates together are one instance of the contract Gate, in which a    *)
(* server stands for the device at that server and a call is a pair of       *)
(* server and share.  A server learns late, if at all, that a client gave up, *)
(* so an approval may come for an RPC nobody waits for any more.             *)
(*                                                                         *)
(* DSM (external): synoshare mounts a share with its own passphrase only. *)
(***************************************************************************)
EXTENDS Naturals

CONSTANTS
  NumShares, NumServers,
  MaybeEmpty,      \* shares whose blob may seal no bytes at all
  None, Random     \* no bytes; random bytes, a server's answer to every failure

Shares == 1..NumShares
Servers == 1..NumServers
Calls == Servers \X Shares

ASSUME SizesAssumption == NumShares \in Nat \ {0} /\ NumServers \in Nat \ {0}
ASSUME MaybeEmptyAssumption == MaybeEmpty \subseteq Shares
ASSUME BytesAssumption == None \notin Nat /\ Random \notin Nat /\ None # Random

VARIABLES
  pc, share, endpoint,    \* where the command is
  plaintext, err,         \* what tryUnseal returned last
  cancelled,              \* the command's context is done
  failed, outcome, exit,
  json,                   \* the flag --json
  empty,                  \* the shares whose blob seals no bytes
  reported,               \* shares whose result was printed
  answer,                 \* the response to the call under way, or NoAnswer
  tried,                  \* history: what became of each call
  call, result, granted, leased, closing    \* the gates; none closes here

gateState == <<call, result, granted, leased, closing>>
client == <<pc, share, endpoint, plaintext, err, failed, outcome, exit, reported, tried>>
vars == <<client, json, empty, cancelled, answer, gateState>>

G == INSTANCE Gate WITH Devices <- Servers, Callers <- Calls

Bytes == {None, Random} \cup Shares    \* a share stands for its passphrase
NoAnswer == 0

Outcomes == {"mounted", "invalid_blob", "unseal_failed", "invalid_passphrase",
             "canceled", "mount_failed"}

TypeOK ==
  /\ pc \in {"share", "endpoint", "waiting", "judge", "mount", "mounting", "report",
             "exited"}
  /\ share \in 1..NumShares + 1 /\ endpoint \in 1..NumServers + 1
  /\ plaintext \in Bytes /\ err \in BOOLEAN
  /\ cancelled \in BOOLEAN /\ failed \in BOOLEAN /\ json \in BOOLEAN
  /\ empty \subseteq Shares
  /\ outcome \in [Shares -> Outcomes \cup {"none"}]
  /\ exit \in {"none", "success", "failed", "canceled", "output_error"}
  /\ reported \subseteq Shares
  /\ answer \in Bytes \cup {NoAnswer}
  /\ tried \in [Calls -> {"none", "asked", "lost", "answered"}]
  /\ call \in [Calls -> Servers \cup {None}]
  /\ result \in [Calls -> G!Results]
  /\ granted \subseteq Calls /\ leased \subseteq Servers /\ closing \in BOOLEAN

(* A server may hold an approval of this device from an earlier run. *)
Init ==
  /\ pc = "share" /\ share = 1 /\ endpoint = 1
  /\ plaintext = None /\ err = FALSE
  /\ cancelled = FALSE /\ failed = FALSE
  /\ json \in BOOLEAN
  /\ empty \in SUBSET MaybeEmpty
  /\ outcome = [s \in Shares |-> "none"]
  /\ exit = "none"
  /\ reported = {}
  /\ answer = NoAnswer
  /\ tried = [c \in Calls |-> "none"]
  /\ call = [c \in Calls |-> None]
  /\ result = [c \in Calls |-> "none"]
  /\ granted = {}
  /\ leased \in SUBSET Servers
  /\ closing = FALSE

Current == <<endpoint, share>>
Exit(how) == pc' = "exited" /\ exit' = how
Become(c, fate) == tried' = [tried EXCEPT ![c] = fate]
Conclude(res) == outcome' = [outcome EXCEPT ![share] = res] /\ pc' = "report"

-----------------------------------------------------------------------------
(* The servers *)

Secret(s) == IF s \in empty THEN None ELSE s

Awaited(c) == pc = "waiting" /\ c = Current

(* The handler of KMSServer: the plaintext if its own Check was approved,    *)
(* random bytes otherwise.  A response to an abandoned call goes nowhere;    *)
(* its Check ends in an error unless the approval came first.               *)
Respond(c) ==
  \/ /\ G!Return(c, "Approved")
     /\ answer' = IF Awaited(c) THEN Secret(c[2]) ELSE answer
     /\ UNCHANGED <<client, json, empty, cancelled>>
  \/ /\ G!Return(c, IF Awaited(c) THEN "Denied" ELSE "Error")
     /\ answer' = IF Awaited(c) THEN Random ELSE answer
     /\ UNCHANGED <<client, json, empty, cancelled>>

OperatorApproves ==
  /\ \E e \in Servers, lease \in BOOLEAN : G!Approve(e, lease)
  /\ UNCHANGED <<client, json, empty, cancelled, answer>>

LeaseExpires ==
  /\ \E e \in leased : G!Expire({e})
  /\ UNCHANGED <<client, json, empty, cancelled, answer>>

(* SIGINT, or whoever runs the command gives up. *)
Cancel ==
  /\ ~cancelled /\ pc # "exited"
  /\ cancelled' = TRUE
  /\ UNCHANGED <<client, json, empty, answer, gateState>>

-----------------------------------------------------------------------------
(* The loop over the shares *)

(* The context is looked at, then readBlob reads the file or refuses it. *)
StartShare ==
  /\ pc = "share" /\ share \in Shares
  /\ \/ cancelled /\ Exit("canceled") /\ UNCHANGED <<endpoint, plaintext, err, outcome>>
     \/ /\ ~cancelled /\ Conclude("invalid_blob")
        /\ UNCHANGED <<endpoint, plaintext, err, exit>>
     \/ /\ ~cancelled
        /\ pc' = "endpoint" /\ endpoint' = 1
        /\ plaintext' = None /\ err' = FALSE
        /\ UNCHANGED <<outcome, exit>>
  /\ UNCHANGED <<share, failed, reported, tried, json, empty, cancelled, answer, gateState>>

(* tryUnseal sends the request.  It reaches the server's gate, or the server *)
(* refuses it before, or nobody is reached.                                 *)
TryUnseal ==
  /\ pc = "endpoint" /\ ~cancelled /\ endpoint \in Servers
  /\ pc' = "waiting"
  /\ Become(Current, "asked")
  /\ \/ G!Call(Current, endpoint) /\ answer' = NoAnswer
     \/ answer' = Random /\ UNCHANGED gateState
     \/ answer' = NoAnswer /\ UNCHANGED gateState
  /\ UNCHANGED <<share, endpoint, plaintext, err, failed, outcome, exit, reported,
                 json, empty, cancelled>>

EndpointsDone ==
  /\ pc = "endpoint"
  /\ cancelled \/ endpoint \notin Servers
  /\ pc' = "judge"
  /\ UNCHANGED <<share, endpoint, plaintext, err, failed, outcome, exit, reported, tried,
                 json, empty, cancelled, answer, gateState>>

(* Mutant: only an error sends the client to the next endpoint. *)
UsableUnlessError(bytes) == TRUE

(* A response that ends the search; an empty one does not. *)
Usable(bytes) == bytes # None

Receive ==
  /\ pc = "waiting" /\ answer # NoAnswer
  /\ plaintext' = answer /\ err' = FALSE
  /\ IF Usable(answer)
       THEN pc' = "judge" /\ Become(Current, "answered") /\ UNCHANGED endpoint
       ELSE pc' = "endpoint" /\ Become(Current, "lost") /\ endpoint' = endpoint + 1
  /\ UNCHANGED <<share, failed, outcome, exit, reported, json, empty, cancelled, answer,
                 gateState>>

(* Mutant: the call has no deadline of its own. *)
RPCFailsIfCancelled ==
  /\ pc = "waiting" /\ cancelled
  /\ pc' = "endpoint" /\ endpoint' = endpoint + 1
  /\ plaintext' = None /\ err' = TRUE
  /\ Become(Current, "lost")
  /\ UNCHANGED <<share, failed, outcome, exit, reported, json, empty, cancelled, answer,
                 gateState>>

(* The transport fails, the context is cancelled, or the deadline of this    *)
(* endpoint passes, at any moment: a response may be on its way.             *)
RPCFails ==
  /\ pc = "waiting"
  /\ pc' = "endpoint" /\ endpoint' = endpoint + 1
  /\ plaintext' = None /\ err' = TRUE
  /\ Become(Current, "lost")
  /\ UNCHANGED <<share, failed, outcome, exit, reported, json, empty, cancelled, answer,
                 gateState>>

(* A NUL or more than 4096 bytes: possible of a passphrase and of random     *)
(* bytes.                                                                   *)
Judge ==
  /\ pc = "judge"
  /\ IF err \/ plaintext = None THEN Conclude("unseal_failed")
     ELSE \/ Conclude("invalid_passphrase")
          \/ cancelled /\ Conclude("canceled")
          \/ ~cancelled /\ pc' = "mount" /\ UNCHANGED outcome
  /\ UNCHANGED <<share, endpoint, plaintext, err, failed, exit, reported, tried,
                 json, empty, cancelled, answer, gateState>>

(* mountSynologyShare looks at its context once more. *)
StartMount ==
  /\ pc = "mount"
  /\ IF cancelled THEN Conclude("mount_failed")
                  ELSE pc' = "mounting" /\ UNCHANGED outcome
  /\ UNCHANGED <<share, endpoint, plaintext, err, failed, exit, reported, tried,
                 json, empty, cancelled, answer, gateState>>

(* synoshare exits, or is killed after a minute or on cancellation. *)
EndMount ==
  /\ pc = "mounting"
  /\ \/ plaintext = share /\ Conclude("mounted")
     \/ Conclude("mount_failed")
  /\ UNCHANGED <<share, endpoint, plaintext, err, failed, exit, reported, tried,
                 json, empty, cancelled, answer, gateState>>

(* Mutants: the plaintext is not zeroed; failed is that of the last share. *)
ReportUnzeroed ==
  /\ pc = "report"
  /\ failed' = (failed \/ outcome[share] # "mounted")
  /\ share' = share + 1 /\ pc' = "share" /\ reported' = reported \cup {share}
  /\ UNCHANGED <<endpoint, plaintext, err, outcome, exit, tried, json, empty, cancelled,
                 answer, gateState>>

ReportLast ==
  /\ pc = "report"
  /\ plaintext' = None
  /\ failed' = (outcome[share] # "mounted")
  /\ share' = share + 1 /\ pc' = "share" /\ reported' = reported \cup {share}
  /\ UNCHANGED <<endpoint, err, outcome, exit, tried, json, empty, cancelled, answer,
                 gateState>>

(* The plaintext is zeroed and the result kept or printed; if it cannot be,  *)
(* the command ends there.                                                  *)
Report ==
  /\ pc = "report"
  /\ plaintext' = None
  /\ failed' = (failed \/ outcome[share] # "mounted")
  /\ \/ /\ share' = share + 1 /\ pc' = "share"
        /\ reported' = IF json THEN reported ELSE reported \cup {share}
        /\ UNCHANGED exit
     \/ ~json /\ Exit("output_error") /\ UNCHANGED <<share, reported>>
  /\ UNCHANGED <<endpoint, err, outcome, tried, json, empty, cancelled, answer, gateState>>

Finish ==
  /\ pc = "share" /\ share \notin Shares
  /\ \/ /\ Exit(IF failed THEN "failed" ELSE "success")
        /\ reported' = Shares
     \/ json /\ Exit("output_error") /\ UNCHANGED reported
  /\ UNCHANGED <<share, endpoint, plaintext, err, failed, outcome, tried,
                 json, empty, cancelled, answer, gateState>>

Step == StartShare \/ TryUnseal \/ EndpointsDone \/ Judge \/ StartMount \/ Report \/ Finish

Next ==
  \/ Step \/ Receive \/ RPCFails \/ EndMount
  \/ Cancel \/ OperatorApproves \/ LeaseExpires
  \/ \E c \in Calls : Respond(c)

Spec == Init /\ [][Next]_vars

(* The command runs, its deadlines pass, and a killed synoshare is gone.     *)
(* Nothing is assumed of the servers, the operator or the network.           *)
Fairness == WF_vars(Step) /\ WF_vars(RPCFails) /\ WF_vars(EndMount)

FairSpec == Spec /\ Fairness

-----------------------------------------------------------------------------
(* Properties *)

(* The exit status tells the truth: zero only if every share was mounted and *)
(* reported; "one or more shares failed" only if all were worked through and *)
(* one did not mount.                                                       *)
ExitHonest ==
  /\ exit = "success" => reported = Shares /\ \A s \in Shares : outcome[s] = "mounted"
  /\ exit = "failed" => /\ reported = Shares
                        /\ \A s \in Shares : outcome[s] # "none"
                        /\ \E s \in Shares : outcome[s] # "mounted"

(* A passphrase is in the client's memory only between the answer and the    *)
(* end of its own share, and comes from the endpoint asked last, where a     *)
(* Check for this very share was approved: approvals are not shared between  *)
(* servers, and no answer to an abandoned call is used.                      *)
SecretFromApproval ==
  plaintext \in Shares =>
    /\ plaintext = share
    /\ pc \in {"judge", "mount", "mounting", "report"}
    /\ tried[Current] = "answered" /\ result[Current] = "Approved"

(* Failover as docs/reference/runtime.md:25 has it: an endpoint is asked only *)
(* when all before it failed or answered nothing, an answer ends the search, *)
(* and unless the command is cancelled nothing is given up before the last.  *)
FailoverInOrder ==
  \A s \in Shares :
    /\ \A e, f \in Servers : f < e /\ tried[<<e, s>>] # "none" => tried[<<f, s>>] = "lost"
    /\ outcome[s] = "unseal_failed" =>
         /\ \A e \in Servers : tried[<<e, s>>] # "answered"
         /\ cancelled \/ \A e \in Servers : tried[<<e, s>>] = "lost"
    /\ outcome[s] \in {"invalid_passphrase", "mounted", "mount_failed"} =>
         \E e \in Servers : tried[<<e, s>>] = "answered"

(* The command ends though no server answers and no operator decides. *)
CommandEnds == <>(pc = "exited")

-----------------------------------------------------------------------------
(* The inductive invariant of the proofs *)

Trying == {"endpoint", "waiting", "judge", "mount", "mounting"}

(* The shares before the current one have a result, those after it none. *)
SharesInOrder ==
  /\ pc \in Trying \cup {"report"} => share \in Shares
  /\ pc = "exited" <=> exit # "none"
  /\ \A s \in Shares :
       /\ s < share => outcome[s] # "none"
       /\ s = share => (pc \in Trying \cup {"share"} => outcome[s] = "none")
       /\ s = share => (pc = "report" => outcome[s] # "none")
       /\ s > share => outcome[s] = "none"
       /\ s > share \/ (s = share /\ pc = "share") => \A e \in Servers : tried[<<e, s>>] = "none"

(* The endpoints before the current one were tried in vain, those after it   *)
(* not at all.                                                              *)
EndpointsInOrder ==
  /\ pc \in Trying => \A e \in Servers :
       /\ e < endpoint => tried[<<e, share>>] = "lost"
       /\ e > endpoint => tried[<<e, share>>] = "none"
  /\ pc = "endpoint" /\ endpoint \in Servers => tried[Current] = "none"
  /\ pc = "waiting" => endpoint \in Servers /\ tried[Current] = "asked"
  /\ plaintext # None =>
       /\ pc \in {"judge", "mount", "mounting", "report"} /\ ~err
       /\ endpoint \in Servers /\ tried[Current] = "answered"
  /\ pc = "judge" /\ plaintext = None =>
       /\ endpoint \in Servers => tried[Current] = "none"
       /\ cancelled \/ endpoint \notin Servers
  /\ pc \in {"mount", "mounting"} => plaintext # None

(* The bytes in the client's hands. *)
BytesSound ==
  /\ pc = "waiting" /\ answer \in Shares =>
       answer = share /\ result[Current] = "Approved" /\ call[Current] = None
  /\ plaintext \in Shares => call[Current] = None

(* What the command remembers of the shares it is through with. *)
Remembered ==
  pc # "exited" =>
    /\ failed <=> \E s \in Shares : s < share /\ outcome[s] # "mounted"
    /\ reported = IF json THEN {} ELSE {s \in Shares : s < share}

IInv ==
  /\ TypeOK /\ SharesInOrder /\ EndpointsInOrder /\ BytesSound /\ Remembered
  /\ ExitHonest /\ SecretFromApproval /\ FailoverInOrder
=============================================================================
