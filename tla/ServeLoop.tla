------------------------------ MODULE ServeLoop ------------------------------
(* One 9P connection: Server.Serve and the Tflush case of Server.handle       *)
(* (server.go).  The loop reads requests in order and spawns a goroutine for  *)
(* each; a goroutine computes its answer, hands it to the writer through the  *)
(* channel `responses` and then cleans up; when the connection breaks, the    *)
(* loop waits for the goroutines, closes the channel and leaves s.conns.      *)
EXTENDS Naturals, Sequences

CONSTANTS Reqs,      \* request instances: bounds the number of requests
          Tags,      \* 9P tags
          NoReq,
          Cap        \* capacity of the channel (16 in the code)

ASSUME NoReqIsNone == NoReq \notin Reqs
ASSUME CapPositive == Cap \in Nat \ {0}

VARIABLES
    tag,        \* request -> its tag
    kind,       \* "op", "wait" (a blocking read of a *wait file) or "flush"
    aim,        \* flush -> the request whose tag is its oldtag
    stage,      \* where a request is, see TypeOK
    cancelled,  \* requests whose context was cancelled
    pending,    \* connState.pending: tag -> the request whose cancel it holds
    dropped,    \* history: requests whose entry another request's cleanup took away
    wire,       \* requests sent by the client and not read yet
    responses,  \* the channel
    open,       \* whether the channel is open
    got,        \* responses the client received, in order
    up,         \* the connection is up
    loop,       \* "reading", "waiting" (wg.Wait), "closing" or "gone"
    connCtx     \* connCtx is live

request == <<tag, kind, aim>>
vars == <<tag, kind, aim, stage, cancelled, pending, dropped, wire, responses, open, got, up, loop,
          connCtx>>

Init ==
    /\ tag \in [Reqs -> Tags]
    /\ kind = [r \in Reqs |-> "op"]
    /\ aim = [r \in Reqs |-> NoReq]
    /\ stage = [r \in Reqs |-> "unsent"]
    /\ cancelled = {}
    /\ pending = [t \in Tags |-> NoReq] /\ dropped = {}
    /\ wire = <<>> /\ responses = <<>> /\ open = TRUE
    /\ got = <<>>
    /\ up = TRUE
    /\ loop = "reading"
    /\ connCtx = TRUE

Got(r) == \E i \in DOMAIN got : got[i] = r
Sent(r) == stage[r] # "unsent"

-----------------------------------------------------------------------------
(* The client, a kernel or library 9P client: flush(5) lets it reuse a tag    *)
(* once the request was answered or the flush of it was.                      *)
Unanswered(r) ==
    /\ Sent(r) /\ ~Got(r)
    /\ ~ \E f \in Reqs : aim[f] = r /\ Got(f)

TagBusy(t) ==
    \E r \in Reqs :
        \/ tag[r] = t /\ Unanswered(r)
        \/ aim[r] # NoReq /\ tag[aim[r]] = t /\ Unanswered(r)

Put(r, k, a) ==
    /\ up /\ stage[r] = "unsent" /\ ~TagBusy(tag[r])
    /\ kind' = [kind EXCEPT ![r] = k]
    /\ aim' = [aim EXCEPT ![r] = a]
    /\ stage' = [stage EXCEPT ![r] = "wire"]
    /\ wire' = Append(wire, r)
    /\ UNCHANGED <<tag, cancelled, pending, dropped, responses, open, got, up, loop, connCtx>>

Send(r) == \E k \in {"op", "wait"} : Put(r, k, NoReq)

SendFlush(r) ==
    \E q \in Reqs \ {r} :
        /\ Unanswered(q) /\ kind[q] # "flush"
        /\ tag[q] # tag[r]
        /\ Put(r, "flush", q)

HangUp ==
    /\ up
    /\ up' = FALSE
    /\ UNCHANGED <<request, stage, cancelled, pending, dropped, wire, responses, open, got, loop, connCtx>>

-----------------------------------------------------------------------------

(* The loop: read a request, register its cancel under its tag, spawn.        *)
ReadRequest ==
    /\ loop = "reading" /\ wire # <<>>
    /\ LET r == Head(wire) IN
         /\ pending' = [pending EXCEPT ![tag[r]] = r]
         /\ stage' = [stage EXCEPT ![r] = "running"]
    /\ wire' = Tail(wire)
    /\ UNCHANGED <<request, cancelled, dropped, responses, open, got, up, loop, connCtx>>

(* A read error; what is still on the wire may be lost. *)
ReadError ==
    /\ loop = "reading" /\ ~up
    /\ loop' = "waiting"
    /\ UNCHANGED <<request, stage, cancelled, pending, dropped, wire, responses, open, got, up, connCtx>>

(* The handler of an ordinary request returns, cancelled or not. *)
HandleOp(r) ==
    /\ stage[r] = "running" /\ kind[r] = "op"
    /\ stage' = [stage EXCEPT ![r] = "sending"]
    /\ UNCHANGED <<request, cancelled, pending, dropped, wire, responses, open, got, up, loop, connCtx>>

(* Mutant: a *wait read blocks until it is cancelled, without its deadline. *)
WaitForCancel(r) ==
    /\ stage[r] = "running" /\ kind[r] = "wait"
    /\ r \in cancelled \/ ~connCtx
    /\ stage' = [stage EXCEPT ![r] = "sending"]
    /\ UNCHANGED <<request, cancelled, pending, dropped, wire, responses, open, got, up, loop, connCtx>>

(* A blocking read returns: the value changed, its context was cancelled, or  *)
(* the five seconds it is given are over.                                     *)
HandleWait(r) ==
    /\ stage[r] = "running" /\ kind[r] = "wait"
    /\ stage' = [stage EXCEPT ![r] = "sending"]
    /\ UNCHANGED <<request, cancelled, pending, dropped, wire, responses, open, got, up, loop, connCtx>>

(* Mutant: the flush cancels the request registered under its own tag. *)
FlushOwnTag(r) == pending[tag[r]]

(* Tflush looks its oldtag up at the time the goroutine runs. *)
FlushVictim(r) == pending[tag[aim[r]]]

(* Mutant: the flushed request is answered by the flush as well as by its own *)
(* goroutine.                                                                 *)
FlushAnswersVictim(r) ==
    /\ stage[r] = "running" /\ kind[r] = "flush"
    /\ FlushVictim(r) # NoReq /\ Len(responses) < Cap
    /\ responses' = Append(responses, FlushVictim(r))
    /\ stage' = [stage EXCEPT ![r] = "sending"]
    /\ UNCHANGED <<request, cancelled, pending, dropped, wire, open, got, up, loop, connCtx>>

(* Mutant: the flush also takes away the entry it found. *)
FlushForgets(r) ==
    /\ stage[r] = "running" /\ kind[r] = "flush"
    /\ cancelled' = cancelled \union ({FlushVictim(r)} \ {NoReq})
    /\ pending' = [pending EXCEPT ![tag[aim[r]]] = NoReq]
    /\ stage' = [stage EXCEPT ![r] = "sending"]
    /\ UNCHANGED <<request, dropped, wire, responses, open, got, up, loop, connCtx>>

(* The context of the request found there is cancelled, if there is one. *)
HandleFlush(r) ==
    /\ stage[r] = "running" /\ kind[r] = "flush"
    /\ cancelled' = cancelled \union ({FlushVictim(r)} \ {NoReq})
    /\ stage' = [stage EXCEPT ![r] = "sending"]
    /\ UNCHANGED <<request, pending, dropped, wire, responses, open, got, up, loop, connCtx>>

(* Mutant: an answer is dropped when the channel is full. *)
SendOrDrop(r) ==
    /\ stage[r] = "sending"
    /\ responses' = IF Len(responses) < Cap THEN Append(responses, r) ELSE responses
    /\ stage' = [stage EXCEPT ![r] = "sent"]
    /\ UNCHANGED <<request, cancelled, pending, dropped, wire, open, got, up, loop, connCtx>>

(* responses <- answer: blocks while the channel is full, panics when closed. *)
SendResponse(r) ==
    /\ stage[r] = "sending" /\ Len(responses) < Cap
    /\ responses' = Append(responses, r)
    /\ stage' = [stage EXCEPT ![r] = "sent"]
    /\ UNCHANGED <<request, cancelled, pending, dropped, wire, open, got, up, loop, connCtx>>

(* The deferred cleanup: cancel, drop the tag's entry, wg.Done.  The answer   *)
(* is on its way by then, and the entry may be that of the tag's next request.*)
Cleanup(r) ==
    /\ stage[r] = "sent"
    /\ cancelled' = cancelled \union {r}
    /\ pending' = [pending EXCEPT ![tag[r]] = NoReq]
    /\ dropped' = dropped \union ({pending[tag[r]]} \ {r, NoReq})
    /\ stage' = [stage EXCEPT ![r] = "done"]
    /\ UNCHANGED <<request, wire, responses, open, got, up, loop, connCtx>>

-----------------------------------------------------------------------------
(* The writer: write errors are ignored, it drains the channel to its end. *)
WriteResponse ==
    /\ responses # <<>>
    /\ got' = IF up THEN Append(got, Head(responses)) ELSE got
    /\ responses' = Tail(responses)
    /\ UNCHANGED <<request, stage, cancelled, pending, dropped, wire, open, up, loop, connCtx>>

InFlight == {r \in Reqs : stage[r] \in {"running", "sending", "sent"}}

CloseChannel ==
    /\ open' = FALSE
    /\ loop' = "closing"
    /\ UNCHANGED <<request, stage, cancelled, pending, dropped, wire, responses, got, up, connCtx>>

(* Mutant: wg.Wait is left out. *)
CloseAtOnce == loop = "waiting" /\ CloseChannel

(* wg.Wait, then close(responses). *)
CloseResponses == loop = "waiting" /\ InFlight = {} /\ CloseChannel

(* The deferred teardown: cancel connCtx, leave s.conns, close the socket. *)
Teardown ==
    /\ loop = "closing"
    /\ connCtx' = FALSE
    /\ loop' = "gone"
    /\ UNCHANGED <<request, stage, cancelled, pending, dropped, wire, responses, open, got, up>>

-----------------------------------------------------------------------------
Client == (\E r \in Reqs : Send(r) \/ SendFlush(r)) \/ HangUp

Handle(r) == HandleOp(r) \/ HandleWait(r) \/ HandleFlush(r) \/ SendResponse(r) \/ Cleanup(r)

Loop == ReadRequest \/ ReadError \/ CloseResponses \/ Teardown

Next == Client \/ Loop \/ WriteResponse \/ \E r \in Reqs : Handle(r)

Spec == Init /\ [][Next]_vars

(* The loop, the writer and the goroutines keep running.  The goroutines that *)
(* wait to send are served in turn: a Go channel queues its senders.  That    *)
(* every handler ends is an assumption: a walk that waits for a rename that   *)
(* waits for it (FidTable!RenameReturns) is outside of what follows from it.  *)
FairSpec ==
    /\ Spec
    /\ WF_vars(Loop) /\ WF_vars(WriteResponse)
    /\ \A r \in Reqs : SF_vars(Handle(r))

-----------------------------------------------------------------------------
TypeOK ==
    /\ tag \in [Reqs -> Tags]
    /\ kind \in [Reqs -> {"op", "wait", "flush"}]
    /\ aim \in [Reqs -> Reqs \union {NoReq}]
    /\ stage \in [Reqs -> {"unsent", "wire", "running", "sending", "sent", "done"}]
    /\ cancelled \subseteq Reqs
    /\ pending \in [Tags -> Reqs \union {NoReq}] /\ dropped \subseteq Reqs
    /\ wire \in Seq(Reqs) /\ responses \in Seq(Reqs) /\ got \in Seq(Reqs)
    /\ Len(responses) <= Cap
    /\ open \in BOOLEAN /\ up \in BOOLEAN /\ connCtx \in BOOLEAN
    /\ loop \in {"reading", "waiting", "closing", "gone"}

(* No goroutine is left that could send on the closed channel, which would    *)
(* bring the whole server down (server.go 428, 432-433).                      *)
NoSendAfterClose == ~open => \A r \in Reqs : stage[r] \in {"unsent", "wire", "done"}

(* Each request is answered at most once, and only after it was read,         *)
(* although goroutines overtake each other on the channel.                    *)
OneAnswer ==
    LET answers == responses \o got IN
    /\ \A i, j \in DOMAIN answers : i # j => answers[i] # answers[j]
    /\ \A i \in DOMAIN answers : stage[answers[i]] \in {"sent", "done"}

(* An entry of pending is a request that has not been cleaned up: a flush     *)
(* never cancels a context that is no longer anyone's.                        *)
PendingIsLive ==
    \A t \in Tags : pending[t] # NoReq => tag[pending[t]] = t /\ pending[t] \in InFlight

(* The cancel of a request that runs and whose client waits for it is found   *)
(* under its tag, unless its entry was taken away by the cleanup of another   *)
(* request with the tag, one that ended late (server.go 209, 421-427).        *)
CancelIsFound ==
    \A r \in Reqs : stage[r] = "running" /\ Unanswered(r) => pending[tag[r]] = r \/ r \in dropped

(* Both ways, pending holds what a flush may have to cancel, although tags    *)
(* are used again while the cleanups of their former owners and the flushes   *)
(* of them are still to come (server.go 209, 415-427, 464-467).               *)
PendingMatches == PendingIsLive /\ CancelIsFound

(* Together: the channel and its senders (server.go 396-433).                 *)
ChannelOK == TypeOK /\ NoSendAfterClose

(* A request is cancelled before its answer is on its way only if the client  *)
(* asked for it: the flush that hit it carries the same old tag.              *)
CancelledOnRequest ==
    \A r \in cancelled :
        stage[r] # "done" => \E f \in Reqs : kind[f] = "flush" /\ aim[f] = r

(* Every request that was read is answered or the connection is lost, however *)
(* slow the others are, if every handler ends (FairSpec).                     *)
ReadIsAnswered == \A r \in Reqs : stage[r] = "running" ~> Got(r) \/ ~up

(* A lost connection is torn down: its goroutines end although connCtx, which *)
(* would cancel them, is cancelled only after them; every handler is assumed  *)
(* to end, a blocking read by its deadline (FairSpec).                        *)
LostIsTornDown == ~up ~> loop = "gone"
==============================================================================
