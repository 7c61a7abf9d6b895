--------------------------- MODULE ServeLoopProofs ---------------------------
(* Proofs about ServeLoop for any requests, tags and channel capacity.        *)
EXTENDS ServeLoop, TLAPS

(* A request is on the wire once, and from there exactly in the stage "wire". *)
WireOnce ==
    /\ \A i, j \in DOMAIN wire : i # j => wire[i] # wire[j]
    /\ \A r \in Reqs : stage[r] = "wire" <=> \E i \in DOMAIN wire : wire[i] = r

(* OneAnswer, said of the channel and of what was received one by one.        *)
AnsweredOnce ==
    /\ \A i, j \in DOMAIN responses : i # j => responses[i] # responses[j]
    /\ \A i, j \in DOMAIN got : i # j => got[i] # got[j]
    /\ \A i \in DOMAIN responses : \A j \in DOMAIN got : responses[i] # got[j]
    /\ \A i \in DOMAIN responses : stage[responses[i]] \in {"sent", "done"}
    /\ \A i \in DOMAIN got : stage[got[i]] \in {"sent", "done"}

(* The channel is closed on the way out of the loop, not before.              *)
OpenWhileServing == open <=> loop \in {"reading", "waiting"}

(* A flush aims at an earlier request of another tag that is no flush.        *)
Aims ==
    /\ \A r \in Reqs : kind[r] = "flush" <=> aim[r] # NoReq
    /\ \A r \in Reqs : stage[r] = "unsent" => aim[r] = NoReq
    /\ \A f \in Reqs : aim[f] # NoReq => Sent(aim[f]) /\ kind[aim[f]] # "flush"

(* A flush of a request that was not read yet is on the wire behind it.       *)
FlushBehind ==
    \A f \in Reqs : \A i \in DOMAIN wire :
        wire[i] = aim[f] => \E j \in DOMAIN wire : i < j /\ wire[j] = f

(* The request r matters still: its client waits for it or for a flush of it. *)
Awaited(r) == Unanswered(r) \/ \E f \in Reqs : aim[f] = r /\ ~Got(f)

(* The client gives a tag to one request at a time, and to none while a flush *)
(* of one that had it is not answered.                                        *)
TagsUnique == \A r, q \in Reqs : r # q /\ tag[r] = tag[q] => ~Unanswered(r) \/ ~Unanswered(q)
WireAlone ==
    \A r, q \in Reqs : r # q /\ tag[r] = tag[q] /\ stage[r] = "wire" => ~Awaited(q)

(* The entry of a tag belongs to the request that matters, or is gone.        *)
Claimed ==
    \A r \in Reqs :
        stage[r] \notin {"unsent", "wire"} /\ Awaited(r) => pending[tag[r]] \in {r, NoReq}

(* What the goroutines of a connection share. *)
SharedStateOK == TypeOK /\ NoSendAfterClose /\ PendingMatches

IInv ==
    /\ SharedStateOK
    /\ WireOnce /\ AnsweredOnce /\ OpenWhileServing /\ Aims /\ FlushBehind
    /\ TagsUnique /\ WireAlone /\ Claimed
    /\ CancelledOnRequest

USE NoReqIsNone, CapPositive

------------------------------------------------------------------------------
(* The flush of a request that was not read yet was not read either.          *)
LEMMA FlushWaits ==
  ASSUME IInv, NEW r \in Reqs, NEW f \in Reqs, aim[f] = r, stage[r] = "wire"
   PROVE  stage[f] = "wire"
BY DEF IInv, WireOnce, FlushBehind

(* A request that was not read yet is not answered, nor is a flush of it.     *)
LEMMA WireUnanswered ==
  ASSUME IInv, NEW r \in Reqs, stage[r] = "wire" PROVE Unanswered(r)
<1>1. \A q \in Reqs : stage[q] = "wire" => ~Got(q)
  BY DEF IInv, AnsweredOnce, Got
<1>2. \A f \in Reqs : aim[f] = r => stage[f] = "wire"
  BY FlushWaits
<1>. QED BY <1>1, <1>2 DEF Unanswered, Sent

(* While nothing is sent, ever less is awaited.                               *)
LEMMA AwaitedShrinks ==
  ASSUME aim' = aim, \A r \in Reqs : Sent(r)' => Sent(r), \A r \in Reqs : Got(r) => Got(r)'
  PROVE  \A r \in Reqs : (Unanswered(r)' => Unanswered(r)) /\ (Awaited(r)' => Awaited(r))
BY DEF Unanswered, Awaited

(* At first no request was sent and the loop is reading.                      *)
LEMMA InitIInv ==
  ASSUME Init
  PROVE  IInv
<1>. USE DEF Init
<1>1. TypeOK
  BY DEF TypeOK
<1>2. NoSendAfterClose /\ PendingIsLive /\ CancelIsFound
  BY DEF NoSendAfterClose, PendingIsLive, CancelIsFound, InFlight
<1>3. WireOnce /\ AnsweredOnce /\ OpenWhileServing
  BY DEF WireOnce, AnsweredOnce, OpenWhileServing
<1>4. Aims /\ FlushBehind
  BY DEF Aims, FlushBehind, Sent
<1>5. TagsUnique /\ WireAlone /\ Claimed
  BY DEF TagsUnique, WireAlone, Claimed, Unanswered, Sent
<1>6. CancelledOnRequest
  BY DEF CancelledOnRequest
<1>. QED BY <1>1, <1>2, <1>3, <1>4, <1>5, <1>6 DEF IInv, SharedStateOK, PendingMatches

(* A request goes to the end of the wire, with a tag none that is awaited     *)
(* has; a flush goes behind what it flushes.                                  *)
LEMMA PutIInv ==
  ASSUME NEW r \in Reqs, NEW k, NEW a, IInv, Put(r, k, a),
         \/ k \in {"op", "wait"} /\ a = NoReq
         \/ k = "flush" /\ a \in Reqs \ {r} /\ Unanswered(a) /\ kind[a] # "flush"
  PROVE  IInv'
<1>. USE DEF Put
<1>a. /\ DOMAIN wire' = 1 .. Len(wire) + 1 /\ DOMAIN wire = 1 .. Len(wire)
      /\ \A i \in DOMAIN wire : wire'[i] = wire[i]
      /\ wire'[Len(wire) + 1] = r
  BY DEF IInv
<1>b. \A q \in Reqs : Got(q)' <=> Got(q)
  BY DEF Got
<1>c. ~Got(r)
  BY DEF IInv, AnsweredOnce, Got
<1>d. \A q \in Reqs : Unanswered(q)' <=> Unanswered(q) \/ q = r
  BY <1>b, <1>c DEF IInv, SharedStateOK, TypeOK, Aims, Unanswered, Sent
<1>e. \A q \in Reqs : q # r => (Awaited(q)' => Awaited(q))
  BY <1>b, <1>d DEF IInv, Awaited
<1>f. \A q \in Reqs : tag[q] = tag[r] => ~Awaited(q)
  BY DEF IInv, Aims, Awaited, Unanswered, TagBusy, Sent
<1>g. \A i \in DOMAIN wire : wire[i] # r
  BY DEF IInv, WireOnce
<1>1. TypeOK'
  BY DEF IInv, SharedStateOK, TypeOK
<1>2. NoSendAfterClose'
  BY DEF IInv, SharedStateOK, NoSendAfterClose
<1>3. PendingIsLive'
  BY DEF IInv, SharedStateOK, PendingMatches, PendingIsLive, InFlight
<1>4. CancelIsFound'
  BY <1>d DEF IInv, SharedStateOK, PendingMatches, CancelIsFound
<1>5. WireOnce'
  <2>1. \A i, j \in DOMAIN wire' : i # j => wire'[i] # wire'[j]
    BY <1>a, <1>g DEF IInv, WireOnce
  <2>2. \A q \in Reqs : stage'[q] = "wire" <=> stage[q] = "wire" \/ q = r
    BY DEF IInv, SharedStateOK, TypeOK
  <2>3. \A q \in Reqs : (\E i \in DOMAIN wire' : wire'[i] = q)
                           <=> (\E i \in DOMAIN wire : wire[i] = q) \/ q = r
    BY <1>a
  <2>. QED BY <2>1, <2>2, <2>3 DEF IInv, WireOnce
<1>6. AnsweredOnce'
  BY DEF IInv, AnsweredOnce
<1>7. OpenWhileServing'
  BY DEF IInv, OpenWhileServing
<1>8. Aims'
  <2>1. \A q \in Reqs : Sent(q) => q # r
    BY DEF Sent
  <2>2. \A q \in Reqs : Sent(q) \/ q = r => Sent(q)'
    BY DEF IInv, SharedStateOK, TypeOK, Sent
  <2>3. a # NoReq => Sent(a) /\ kind[a] # "flush"
    BY DEF Unanswered
  <2>. QED BY <2>1, <2>2, <2>3 DEF IInv, SharedStateOK, TypeOK, Aims
<1>9. FlushBehind'
  <2>. SUFFICES ASSUME NEW f \in Reqs, NEW i \in DOMAIN wire', wire'[i] = aim'[f]
                PROVE  \E j \in DOMAIN wire' : i < j /\ wire'[j] = f
    BY DEF FlushBehind
  <2>1. i \in DOMAIN wire
    BY DEF IInv, Aims, Sent
  <2>2. CASE f = r
    BY <2>1, <2>2
  <2>3. CASE f # r
    BY <2>1, <2>3 DEF IInv, FlushBehind
  <2>. QED BY <2>2, <2>3
<1>10. TagsUnique'
  BY <1>d, <1>f DEF IInv, TagsUnique, Awaited
<1>11. WireAlone'
  <2>. SUFFICES ASSUME NEW p \in Reqs, NEW q \in Reqs, p # q, tag[p] = tag[q], stage'[p] = "wire"
                PROVE  ~Awaited(q)'
    BY DEF WireAlone
  <2>1. CASE p = r
    BY <2>1, <1>e, <1>f
  <2>2. CASE p # r /\ q # r
    BY <2>2, <1>e DEF IInv, WireAlone
  <2>3. CASE q = r
    BY <2>3, <1>f, WireUnanswered DEF IInv, Awaited
  <2>. QED BY <2>1, <2>2, <2>3
<1>12. Claimed'
  BY <1>e DEF IInv, Claimed
<1>13. CancelledOnRequest'
  BY DEF IInv, CancelledOnRequest, Aims
<1>. QED BY <1>1, <1>2, <1>3, <1>4, <1>5, <1>6, <1>7, <1>8, <1>9, <1>10, <1>11, <1>12, <1>13 DEF
    IInv, SharedStateOK, PendingMatches

(* The loop takes the head of the wire and registers its cancel: by WireAlone *)
(* nobody else's entry that matters is overwritten.                           *)
LEMMA ReadRequestIInv ==
  ASSUME IInv, ReadRequest
  PROVE  IInv'
<1>. USE DEF ReadRequest, request
<1>b. /\ Len(wire) > 0 /\ DOMAIN wire = 1 .. Len(wire) /\ DOMAIN wire' = 1 .. Len(wire) - 1
      /\ \A i \in DOMAIN wire' : wire'[i] = wire[i + 1]
      /\ Head(wire) = wire[1] /\ wire[1] \in Reqs
  BY DEF IInv, SharedStateOK, TypeOK
<1>c. stage[wire[1]] = "wire"
  BY <1>b DEF IInv, WireOnce
<1>d. Unanswered(wire[1])
  BY <1>b, <1>c, WireUnanswered
<1>e. /\ stage' = [stage EXCEPT ![wire[1]] = "running"]
      /\ pending' = [pending EXCEPT ![tag[wire[1]]] = wire[1]]
  OBVIOUS
<1>f. \A q \in Reqs : (Unanswered(q)' => Unanswered(q)) /\ (Awaited(q)' => Awaited(q))
  <2>1. \A q \in Reqs : Sent(q)' => Sent(q)
    BY <1>c DEF IInv, Sent
  <2>. QED BY <2>1, AwaitedShrinks DEF Got
<1>1. TypeOK'
  BY DEF IInv, SharedStateOK, TypeOK
<1>2. NoSendAfterClose'
  BY DEF IInv, NoSendAfterClose, OpenWhileServing
<1>3. PendingIsLive'
  BY DEF IInv, SharedStateOK, PendingMatches, TypeOK, PendingIsLive, InFlight
<1>4. CancelIsFound'
  BY <1>d, <1>f DEF IInv, SharedStateOK, PendingMatches, TypeOK, CancelIsFound, TagsUnique
<1>5. WireOnce'
  <2>1. \A i, j \in DOMAIN wire : i # j => wire[i] # wire[j]
    BY DEF IInv, WireOnce
  <2>2. \A i, j \in DOMAIN wire' : i # j => wire'[i] # wire'[j]
    BY <2>1
  <2>3. ASSUME NEW q \in Reqs
        PROVE  stage'[q] = "wire" <=> \E i \in DOMAIN wire' : wire'[i] = q
    <3>1. CASE q = wire[1]
      <4>1. stage'[q] # "wire"
        BY <3>1 DEF IInv, SharedStateOK, TypeOK
      <4>2. \A i \in DOMAIN wire' : i + 1 \in DOMAIN wire /\ 1 \in DOMAIN wire /\ i + 1 # 1
        OBVIOUS
      <4>3. \A i \in DOMAIN wire' : wire'[i] # q
        BY <2>1, <3>1, <4>2
      <4>. QED BY <4>1, <4>3
    <3>2. CASE q # wire[1]
      <4>1. stage'[q] = stage[q]
        BY <3>2 DEF IInv
      <4>2. (\E i \in DOMAIN wire : wire[i] = q) => \E i \in DOMAIN wire' : wire'[i] = q
        <5>. SUFFICES ASSUME NEW i \in DOMAIN wire, wire[i] = q
                       PROVE  \E k \in DOMAIN wire' : wire'[k] = q
          OBVIOUS
        <5>1. i - 1 \in DOMAIN wire' /\ wire'[i - 1] = q
          BY <1>b, <3>2
        <5>. QED BY <5>1
      <4>3. (\E i \in DOMAIN wire' : wire'[i] = q) => \E i \in DOMAIN wire : wire[i] = q
        <5>. SUFFICES ASSUME NEW i \in DOMAIN wire', wire'[i] = q
                       PROVE  \E k \in DOMAIN wire : wire[k] = q
          OBVIOUS
        <5>1. i + 1 \in DOMAIN wire /\ wire[i + 1] = q
          BY <1>b
        <5>. QED BY <5>1
      <4>. QED BY <4>1, <4>2, <4>3 DEF IInv, WireOnce
    <3>. QED BY <3>1, <3>2
  <2>. QED BY <2>2, <2>3 DEF WireOnce
<1>6. AnsweredOnce'
  BY <1>c DEF IInv, AnsweredOnce
<1>7. OpenWhileServing'
  BY DEF IInv, OpenWhileServing
<1>8. Aims'
  BY DEF IInv, Aims, Sent
<1>9. FlushBehind'
  <2>. SUFFICES ASSUME NEW f \in Reqs, NEW i \in DOMAIN wire', wire'[i] = aim'[f]
                PROVE  \E j \in DOMAIN wire' : i < j /\ wire'[j] = f
    BY DEF FlushBehind
  <2>1. PICK j \in DOMAIN wire : i + 1 < j /\ wire[j] = f
    BY <1>b DEF IInv, FlushBehind
  <2>2. j - 1 \in DOMAIN wire' /\ wire'[j - 1] = f
    BY <1>b, <2>1
  <2>. QED BY <1>b, <2>1, <2>2
<1>10. TagsUnique'
  BY <1>f DEF IInv, TagsUnique
<1>11. WireAlone'
  BY <1>f DEF IInv, WireAlone
<1>12. Claimed'
  BY <1>c, <1>f DEF IInv, SharedStateOK, TypeOK, Claimed, WireAlone
<1>13. CancelledOnRequest'
  BY <1>c DEF IInv, CancelledOnRequest
<1>. QED BY <1>1, <1>2, <1>3, <1>4, <1>5, <1>6, <1>7, <1>8, <1>9, <1>10, <1>11, <1>12, <1>13 DEF
    IInv, SharedStateOK, PendingMatches

(* A computed answer changes nothing but the stage of its request.            *)
LEMMA HandleIInv ==
  ASSUME NEW r \in Reqs, IInv, stage[r] = "running", stage' = [stage EXCEPT ![r] = "sending"],
         UNCHANGED <<request, cancelled, pending, dropped, wire, responses, open, got, up, loop, connCtx>>
  PROVE  IInv'
<1>. USE DEF request
<1>a. \A q \in Reqs : (Unanswered(q)' => Unanswered(q)) /\ (Awaited(q)' => Awaited(q))
  BY AwaitedShrinks DEF IInv, Sent, Got
<1>1. TypeOK'
  BY DEF IInv, SharedStateOK, TypeOK
<1>2. NoSendAfterClose'
  BY DEF IInv, SharedStateOK, NoSendAfterClose
<1>3. PendingIsLive'
  BY DEF IInv, SharedStateOK, PendingMatches, PendingIsLive, InFlight
<1>4. CancelIsFound'
  BY <1>a DEF IInv, SharedStateOK, PendingMatches, CancelIsFound
<1>5. WireOnce'
  BY DEF IInv, WireOnce
<1>6. AnsweredOnce'
  BY DEF IInv, AnsweredOnce
<1>7. OpenWhileServing'
  BY DEF IInv, OpenWhileServing
<1>8. Aims'
  BY DEF IInv, Aims, Sent
<1>9. FlushBehind'
  BY DEF IInv, FlushBehind
<1>10. TagsUnique'
  BY <1>a DEF IInv, TagsUnique
<1>11. WireAlone'
  BY <1>a DEF IInv, WireAlone
<1>12. Claimed'
  BY <1>a DEF IInv, Claimed
<1>13. CancelledOnRequest'
  BY DEF IInv, CancelledOnRequest
<1>. QED BY <1>1, <1>2, <1>3, <1>4, <1>5, <1>6, <1>7, <1>8, <1>9, <1>10, <1>11, <1>12, <1>13 DEF
    IInv, SharedStateOK, PendingMatches

(* A flush cancels what it finds under the old tag: by Claimed that is the    *)
(* request it aims at, or nothing.                                            *)
LEMMA HandleFlushIInv ==
  ASSUME NEW r \in Reqs, IInv, HandleFlush(r)
  PROVE  IInv'
<1>. USE DEF HandleFlush, FlushVictim, request
<1>a. \A q \in Reqs : (Unanswered(q)' => Unanswered(q)) /\ (Awaited(q)' => Awaited(q))
  BY AwaitedShrinks DEF IInv, Sent, Got
<1>1. TypeOK'
  <2>1. aim[r] \in Reqs
    BY DEF IInv, SharedStateOK, TypeOK, Aims
  <2>2. cancelled' \subseteq Reqs
    BY <2>1 DEF IInv, SharedStateOK, TypeOK
  <2>. QED BY <2>2 DEF IInv, SharedStateOK, TypeOK
<1>2. NoSendAfterClose'
  BY DEF IInv, SharedStateOK, NoSendAfterClose
<1>3. PendingIsLive'
  BY DEF IInv, SharedStateOK, PendingMatches, PendingIsLive, InFlight
<1>4. CancelIsFound'
  BY <1>a DEF IInv, SharedStateOK, PendingMatches, CancelIsFound
<1>5. WireOnce'
  BY DEF IInv, WireOnce
<1>6. AnsweredOnce'
  BY DEF IInv, AnsweredOnce
<1>7. OpenWhileServing'
  BY DEF IInv, OpenWhileServing
<1>8. Aims'
  BY DEF IInv, Aims, Sent
<1>9. FlushBehind'
  BY DEF IInv, FlushBehind
<1>10. TagsUnique'
  BY <1>a DEF IInv, TagsUnique
<1>11. WireAlone'
  BY <1>a DEF IInv, WireAlone
<1>12. Claimed'
  BY <1>a DEF IInv, Claimed
<1>13. CancelledOnRequest'
  <2>1. aim[r] \in Reqs /\ stage[aim[r]] \notin {"unsent", "wire"} /\ Awaited(aim[r])
    <3>1. aim[r] \in Reqs /\ stage[aim[r]] # "unsent"
      BY DEF IInv, SharedStateOK, TypeOK, Aims, Sent
    <3>2. stage[aim[r]] # "wire"
      BY <3>1, FlushWaits
    <3>3. ~Got(r)
      BY DEF IInv, AnsweredOnce, Got
    <3>. QED BY <3>1, <3>2, <3>3 DEF Awaited
  <2>2. cancelled' \subseteq cancelled \union {aim[r]}
    BY <2>1 DEF IInv, Claimed
  <2>. QED BY <2>1, <2>2 DEF IInv, CancelledOnRequest
<1>. QED BY <1>1, <1>2, <1>3, <1>4, <1>5, <1>6, <1>7, <1>8, <1>9, <1>10, <1>11, <1>12, <1>13 DEF
    IInv, SharedStateOK, PendingMatches

(* A handler hands its answer to the channel once, and it was not there       *)
(* before.                                                                    *)
LEMMA SendResponseIInv ==
  ASSUME NEW r \in Reqs, IInv, SendResponse(r)
  PROVE  IInv'
<1>. USE DEF SendResponse, request
<1>a. \A q \in Reqs : (Unanswered(q)' => Unanswered(q)) /\ (Awaited(q)' => Awaited(q))
  BY AwaitedShrinks DEF IInv, Sent, Got
<1>1. TypeOK'
  BY DEF IInv, SharedStateOK, TypeOK
<1>2. NoSendAfterClose'
  BY DEF IInv, SharedStateOK, NoSendAfterClose
<1>3. PendingIsLive'
  BY DEF IInv, SharedStateOK, PendingMatches, PendingIsLive, InFlight
<1>4. CancelIsFound'
  BY <1>a DEF IInv, SharedStateOK, PendingMatches, CancelIsFound
<1>5. WireOnce'
  BY DEF IInv, WireOnce
<1>6. AnsweredOnce'
  BY DEF IInv, SharedStateOK, TypeOK, AnsweredOnce
<1>7. OpenWhileServing'
  BY DEF IInv, OpenWhileServing
<1>8. Aims'
  BY DEF IInv, Aims, Sent
<1>9. FlushBehind'
  BY DEF IInv, FlushBehind
<1>10. TagsUnique'
  BY <1>a DEF IInv, TagsUnique
<1>11. WireAlone'
  BY <1>a DEF IInv, WireAlone
<1>12. Claimed'
  BY <1>a DEF IInv, Claimed
<1>13. CancelledOnRequest'
  BY DEF IInv, CancelledOnRequest
<1>. QED BY <1>1, <1>2, <1>3, <1>4, <1>5, <1>6, <1>7, <1>8, <1>9, <1>10, <1>11, <1>12, <1>13 DEF
    IInv, SharedStateOK, PendingMatches

(* A cleanup may drop the entry of another request of the tag; no entry that  *)
(* is left belongs to a wrong one.                                            *)
LEMMA CleanupIInv ==
  ASSUME NEW r \in Reqs, IInv, Cleanup(r)
  PROVE  IInv'
<1>. USE DEF Cleanup, request
<1>a. \A q \in Reqs : (Unanswered(q)' => Unanswered(q)) /\ (Awaited(q)' => Awaited(q))
  BY AwaitedShrinks DEF IInv, Sent, Got
<1>1. TypeOK'
  BY DEF IInv, SharedStateOK, TypeOK
<1>2. NoSendAfterClose'
  BY DEF IInv, SharedStateOK, NoSendAfterClose
<1>3. PendingIsLive'
  BY DEF IInv, SharedStateOK, PendingMatches, TypeOK, PendingIsLive, InFlight
<1>4. CancelIsFound'
  BY <1>a DEF IInv, SharedStateOK, PendingMatches, TypeOK, CancelIsFound
<1>5. WireOnce'
  BY DEF IInv, WireOnce
<1>6. AnsweredOnce'
  BY DEF IInv, AnsweredOnce
<1>7. OpenWhileServing'
  BY DEF IInv, OpenWhileServing
<1>8. Aims'
  BY DEF IInv, Aims, Sent
<1>9. FlushBehind'
  BY DEF IInv, FlushBehind
<1>10. TagsUnique'
  BY <1>a DEF IInv, TagsUnique
<1>11. WireAlone'
  BY <1>a DEF IInv, WireAlone
<1>12. Claimed'
  BY <1>a DEF IInv, Claimed
<1>13. CancelledOnRequest'
  BY DEF IInv, SharedStateOK, TypeOK, CancelledOnRequest
<1>. QED BY <1>1, <1>2, <1>3, <1>4, <1>5, <1>6, <1>7, <1>8, <1>9, <1>10, <1>11, <1>12, <1>13 DEF
    IInv, SharedStateOK, PendingMatches

(* The writer moves the head of the channel to the client.                    *)
LEMMA WriteResponseIInv ==
  ASSUME IInv, WriteResponse
  PROVE  IInv'
<1>. USE DEF WriteResponse, request
<1>g. \A q \in Reqs : Got(q) => Got(q)'
  BY DEF IInv, Got
<1>a. \A q \in Reqs : (Unanswered(q)' => Unanswered(q)) /\ (Awaited(q)' => Awaited(q))
  BY <1>g, AwaitedShrinks DEF Sent
<1>1. TypeOK'
  BY DEF IInv, SharedStateOK, TypeOK
<1>2. NoSendAfterClose'
  BY DEF IInv, SharedStateOK, NoSendAfterClose
<1>3. PendingIsLive'
  BY DEF IInv, SharedStateOK, PendingMatches, PendingIsLive, InFlight
<1>4. CancelIsFound'
  BY <1>a DEF IInv, SharedStateOK, PendingMatches, CancelIsFound
<1>5. WireOnce'
  BY DEF IInv, WireOnce
<1>6. AnsweredOnce'
  <2>1. /\ \A i \in DOMAIN responses' :
             i + 1 \in DOMAIN responses /\ responses'[i] = responses[i + 1]
        /\ 1 \in DOMAIN responses /\ responses[1] \in Reqs /\ got \in Seq(Reqs)
        /\ got' \in {got, Append(got, responses[1])}
    BY DEF IInv, SharedStateOK, TypeOK
  <2>2. \A i \in DOMAIN responses' : responses[i + 1] # responses[1]
    BY <2>1 DEF IInv, AnsweredOnce
  <2>3. CASE got' = got
    BY <2>1, <2>2, <2>3 DEF IInv, AnsweredOnce
  <2>4. CASE got' = Append(got, responses[1])
    <3>1. /\ DOMAIN got' = 1 .. Len(got) + 1 /\ DOMAIN got = 1 .. Len(got)
          /\ \A i \in DOMAIN got : got'[i] = got[i]
          /\ got'[Len(got) + 1] = responses[1]
      BY <2>1, <2>4
    <3>. QED BY <2>1, <2>2, <3>1 DEF IInv, AnsweredOnce
  <2>. QED BY <2>1, <2>3, <2>4
<1>7. OpenWhileServing'
  BY DEF IInv, OpenWhileServing
<1>8. Aims'
  BY DEF IInv, Aims, Sent
<1>9. FlushBehind'
  BY DEF IInv, FlushBehind
<1>10. TagsUnique'
  BY <1>a DEF IInv, TagsUnique
<1>11. WireAlone'
  BY <1>a DEF IInv, WireAlone
<1>12. Claimed'
  BY <1>a DEF IInv, Claimed
<1>13. CancelledOnRequest'
  BY DEF IInv, CancelledOnRequest
<1>. QED BY <1>1, <1>2, <1>3, <1>4, <1>5, <1>6, <1>7, <1>8, <1>9, <1>10, <1>11, <1>12, <1>13 DEF
    IInv, SharedStateOK, PendingMatches

(* The end of the connection closes the channel when no request is in flight. *)
LEMMA ConnIInv ==
  ASSUME IInv, HangUp \/ ReadError \/ CloseResponses \/ Teardown \/ UNCHANGED vars
  PROVE  IInv'
<1>. USE DEF HangUp, ReadError, CloseResponses, CloseChannel, Teardown, vars, request
<1>a. \A q \in Reqs : (Unanswered(q)' => Unanswered(q)) /\ (Awaited(q)' => Awaited(q))
  BY AwaitedShrinks DEF IInv, Sent, Got
<1>1. TypeOK'
  BY DEF IInv, SharedStateOK, TypeOK
<1>2. NoSendAfterClose'
  BY DEF IInv, SharedStateOK, TypeOK, NoSendAfterClose, InFlight
<1>3. PendingIsLive'
  BY DEF IInv, SharedStateOK, PendingMatches, PendingIsLive, InFlight
<1>4. CancelIsFound'
  BY <1>a DEF IInv, SharedStateOK, PendingMatches, CancelIsFound
<1>5. WireOnce'
  BY DEF IInv, WireOnce
<1>6. AnsweredOnce'
  BY DEF IInv, AnsweredOnce
<1>7. OpenWhileServing'
  BY DEF IInv, OpenWhileServing
<1>8. Aims'
  BY DEF IInv, Aims, Sent
<1>9. FlushBehind'
  BY DEF IInv, FlushBehind
<1>10. TagsUnique'
  BY <1>a DEF IInv, TagsUnique
<1>11. WireAlone'
  BY <1>a DEF IInv, WireAlone
<1>12. Claimed'
  BY <1>a DEF IInv, Claimed
<1>13. CancelledOnRequest'
  BY DEF IInv, CancelledOnRequest
<1>. QED BY <1>1, <1>2, <1>3, <1>4, <1>5, <1>6, <1>7, <1>8, <1>9, <1>10, <1>11, <1>12, <1>13 DEF
    IInv, SharedStateOK, PendingMatches

(* Every step is one of the actions above. *)
LEMMA NextIInv == IInv /\ [Next]_vars => IInv'
<1>. SUFFICES ASSUME IInv, [Next]_vars PROVE IInv'
  OBVIOUS
<1>1. CASE \E r \in Reqs : Send(r) \/ SendFlush(r)
  BY <1>1, PutIInv DEF Send, SendFlush
<1>2. CASE HangUp \/ ReadError \/ CloseResponses \/ Teardown \/ UNCHANGED vars
  BY <1>2, ConnIInv
<1>3. CASE ReadRequest
  BY <1>3, ReadRequestIInv
<1>4. CASE WriteResponse
  BY <1>4, WriteResponseIInv
<1>5. CASE \E r \in Reqs : HandleOp(r) \/ HandleWait(r)
  BY <1>5, HandleIInv DEF HandleOp, HandleWait
<1>6. CASE \E r \in Reqs : HandleFlush(r) \/ SendResponse(r) \/ Cleanup(r)
  BY <1>6, HandleFlushIInv, SendResponseIInv, CleanupIInv
<1>. QED BY <1>1, <1>2, <1>3, <1>4, <1>5, <1>6 DEF Next, Client, Loop, Handle

------------------------------------------------------------------------------
(* The inductive invariant holds of every behaviour.                          *)
LEMMA Invariance == Spec => []IInv
<1>1. Init => IInv
  BY InitIInv
<1>2. IInv /\ [Next]_vars => IInv'
  BY NextIInv
<1>. QED BY <1>1, <1>2, PTL DEF Spec

(* However many requests are in flight, no goroutine is left that could send  *)
(* on the closed channel (server.go 396-433).                                 *)
THEOREM ChannelSafe == Spec => []ChannelOK
<1>1. IInv => ChannelOK
  BY DEF IInv, SharedStateOK, ChannelOK
<1>. QED BY <1>1, Invariance, PTL

(* However tags are used again: the map of cancels holds those of requests in *)
(* flight, that of each running request the client waits for among them       *)
(* unless the cleanup of another request has taken just that entry away       *)
(* (server.go 209, 415-427, 464-467).                                         *)
THEOREM CancelsAreFound == Spec => []PendingMatches
<1>1. IInv => PendingMatches
  BY DEF IInv, SharedStateOK
<1>. QED BY <1>1, Invariance, PTL

(* No request is answered twice or before it was read, in whatever order the  *)
(* goroutines reach the channel (server.go 411-433).                          *)
THEOREM AnswersOnce == Spec => []OneAnswer
<1>1. ASSUME IInv PROVE OneAnswer
  <2>1. responses \in Seq(Reqs) /\ got \in Seq(Reqs) /\ AnsweredOnce
    BY <1>1 DEF IInv, SharedStateOK, TypeOK
  <2>2. /\ DOMAIN (responses \o got) = 1 .. Len(responses) + Len(got)
        /\ \A i \in 1 .. Len(responses) :
             i \in DOMAIN responses /\ (responses \o got)[i] = responses[i]
        /\ \A i \in Len(responses) + 1 .. Len(responses) + Len(got) :
              i - Len(responses) \in DOMAIN got /\ (responses \o got)[i] = got[i - Len(responses)]
    BY <2>1
  <2>. QED BY <2>1, <2>2 DEF OneAnswer, AnsweredOnce
<1>. QED BY <1>1, Invariance, PTL

(* A context is cancelled before its answer is on its way only for a flush of *)
(* that very request: the tag a flush looks up late is not another's yet      *)
(* (server.go 421-427, 463-476).                                              *)
THEOREM CancelsAreMeant == Spec => []CancelledOnRequest
<1>1. IInv => CancelledOnRequest
  BY DEF IInv
<1>. QED BY <1>1, Invariance, PTL

==============================================================================
