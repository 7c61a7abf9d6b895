------------------------- MODULE SessionFilesProofs --------------------------
(* Proofs about two files of a session: statewait (StateWait), for any fids,  *)
(* sessions, states and reads, and cfg (SessionConfig), for any writers,      *)
(* parameters and values and any bound on the turns.                          *)
EXTENDS StateWait, SessionConfig, TLAPS

(* STATEWAIT                                                                  *)

(* Who has never been overlapped is the only pending read of an open fid; the *)
(* fid of a read that was not closed under it is still of its session.        *)
SoleAlone ==
    \A r \in sole :
        /\ pc[r] # "idle" /\ fid[on[r]] # NoSession
        /\ \A q \in Reads : pc[q] # "idle" /\ on[q] = on[r] => q = r
FreshOpen ==
    /\ \A r \in Reads : pc[r] # "idle" /\ r \notin stale => fid[on[r]] = of[r]
    /\ \A r \in stale : pc[r] # "idle"

(* An open fid on which an overlapped or a flushed read is pending is unsure. *)
Shaken ==
    \A r \in Reads :
        /\ pc[r] # "idle" /\ r \notin sole /\ fid[on[r]] # NoSession => on[r] \in unsure
        /\ r \in flushed => pc[r] # "idle" /\ on[r] \in unsure

(* A closed fid keeps neither a baseline nor a memory of what was told.       *)
Closed == \A f \in Fids : fid[f] = NoSession => waitBase[f] = Unset /\ seen[f] = Unset

(* The baseline of a fid that is not unsure is what the client was told, or   *)
(* what its one read is about to tell.                                        *)
Synced ==
    /\ \A r \in sole : pc[r] = "stored" => waitBase[on[r]] = content[r]
    /\ \A f \in Fids :
         f \notin unsure /\ seen[f] # Unset =>
            waitBase[f] = seen[f] \/ \E r \in sole : on[r] = f /\ pc[r] = "stored"

(* NoChangeMissed from the moment at which the read takes the baseline.       *)
Basis ==
    \A r \in sole \ flushed :
        on[r] \notin unsure /\ seen[on[r]] # Unset =>
            /\ pc[r] \in {"based", "waiting"} => base[r] = seen[on[r]]
            /\ pc[r] = "woken" /\ r \notin late => content[r] # seen[on[r]]

IInv == TypeOK /\ SoleAlone /\ FreshOpen /\ Shaken /\ Closed /\ Synced /\ Basis

USE NonesApart

------------------------------------------------------------------------------
(* At first no fid is open and no read is under way.                          *)
LEMMA InitIInv == Init => IInv
<1>. SUFFICES ASSUME Init PROVE IInv
  OBVIOUS
<1>1. TypeOK
  BY DEF Init, TypeOK
<1>2. SoleAlone /\ FreshOpen /\ Shaken /\ Closed /\ Synced /\ Basis
  BY DEF Init, SoleAlone, FreshOpen, Shaken, Closed, Synced, Basis
<1>. QED BY <1>1, <1>2 DEF IInv

(* A new open starts without baseline and memory; reads of the last open that *)
(* are still pending make the fid unsure.                                     *)
LEMMA OpenIInv ==
  ASSUME NEW f \in Fids, NEW s \in Sessions, IInv, Open(f, s)
  PROVE  IInv'
<1>. USE DEF Open, Pending, session, request
<1>1. TypeOK'
  BY DEF IInv, TypeOK
<1>2. SoleAlone'
  BY DEF IInv, SoleAlone
<1>3. FreshOpen'
  BY DEF IInv, TypeOK, FreshOpen
<1>4. Shaken'
  BY DEF IInv, Shaken
<1>5. Closed'
  BY DEF IInv, Closed
<1>6. Synced'
  BY DEF IInv, Closed, Synced
<1>7. Basis'
  BY DEF IInv, Closed, Basis
<1>. QED BY <1>1, <1>2, <1>3, <1>4, <1>5, <1>6, <1>7 DEF IInv

(* A clunk forgets what the fid knew, and its pending reads are no longer of  *)
(* anybody's open.                                                            *)
LEMMA ClunkIInv ==
  ASSUME NEW f \in Fids, IInv, Clunk(f)
  PROVE  IInv'
<1>. USE DEF Clunk, Pending, session, bounds
<1>1. TypeOK'
  BY DEF IInv, TypeOK
<1>2. SoleAlone'
  BY DEF IInv, TypeOK, SoleAlone
<1>3. FreshOpen'
  BY DEF IInv, FreshOpen
<1>4. Shaken'
  BY DEF IInv, TypeOK, Shaken
<1>5. Closed'
  BY DEF IInv, TypeOK, Closed
<1>6. Synced'
  BY DEF IInv, TypeOK, Synced
<1>7. Basis'
  BY DEF IInv, Basis
<1>. QED BY <1>1, <1>2, <1>3, <1>4, <1>5, <1>6, <1>7 DEF IInv

(* A read that meets another of its fid ends the solitude of both and makes   *)
(* the fid unsure.                                                            *)
LEMMA ReadIInv ==
  ASSUME NEW r \in Reads, NEW f \in Fids, IInv, Read(r, f)
  PROVE  IInv'
<1>. USE DEF Read, Pending, session, table, bounds
<1>1. TypeOK'
  BY DEF IInv, TypeOK, FreshOpen
<1>2. SoleAlone'
  BY DEF IInv, TypeOK, SoleAlone
<1>3. FreshOpen'
  BY DEF IInv, TypeOK, FreshOpen
<1>4. Shaken'
  BY DEF IInv, TypeOK, Shaken
<1>5. Closed'
  BY DEF IInv, Closed
<1>6. Synced'
  BY DEF IInv, Synced
<1>7. Basis'
  BY DEF IInv, Basis
<1>. QED BY <1>1, <1>2, <1>3, <1>4, <1>5, <1>6, <1>7 DEF IInv

(* A flush makes the fid unsure for as long as the read is pending, since its *)
(* answer may be heard or not.                                                *)
LEMMA FlushIInv ==
  ASSUME NEW r \in Reads, IInv, Flush(r)
  PROVE  IInv'
<1>. USE DEF Flush, session, table
<1>1. TypeOK'
  BY DEF IInv, TypeOK
<1>2. SoleAlone'
  BY DEF IInv, SoleAlone
<1>3. FreshOpen'
  BY DEF IInv, FreshOpen
<1>4. Shaken'
  BY DEF IInv, Shaken
<1>5. Closed'
  BY DEF IInv, Closed
<1>6. Synced'
  BY DEF IInv, Synced
<1>7. Basis'
  BY DEF IInv, Basis
<1>. QED BY <1>1, <1>2, <1>3, <1>4, <1>5, <1>6, <1>7 DEF IInv

(* What the session does touches neither fids nor reads.                      *)
LEMMA SessionIInv ==
  ASSUME IInv, \E s \in Sessions : Kill(s) \/ \E v \in States : Change(s, v)
  PROVE  IInv'
<1>. USE DEF Kill, Change, table, request, bounds
<1>1. TypeOK'
  BY DEF IInv, TypeOK
<1>2. SoleAlone'
  BY DEF IInv, SoleAlone
<1>3. FreshOpen'
  BY DEF IInv, FreshOpen
<1>4. Shaken'
  BY DEF IInv, Shaken
<1>5. Closed'
  BY DEF IInv, Closed
<1>6. Synced'
  BY DEF IInv, Synced
<1>7. Basis'
  BY DEF IInv, Basis
<1>. QED BY <1>1, <1>2, <1>3, <1>4, <1>5, <1>6, <1>7 DEF IInv

(* A read whose session is gone leaves nothing behind.                        *)
LEMMA MissIInv ==
  ASSUME NEW r \in Reads, IInv, Miss(r)
  PROVE  IInv'
<1>. USE DEF Miss, Ended, session, table, bounds
<1>1. TypeOK'
  BY DEF IInv, TypeOK
<1>2. SoleAlone'
  BY DEF IInv, SoleAlone
<1>3. FreshOpen'
  BY DEF IInv, TypeOK, FreshOpen
<1>4. Shaken'
  BY DEF IInv, TypeOK, Shaken
<1>5. Closed'
  BY DEF IInv, Closed
<1>6. Synced'
  BY DEF IInv, Synced
<1>7. Basis'
  BY DEF IInv, Basis
<1>. QED BY <1>1, <1>2, <1>3, <1>4, <1>5, <1>6, <1>7 DEF IInv

(* The sole read of a fid that is not unsure finds there what the client was  *)
(* told: by Synced, since no other read is about to answer.                   *)
LEMMA TakeBaseIInv ==
  ASSUME NEW r \in Reads, IInv, TakeBase(r)
  PROVE  IInv'
<1>. USE DEF TakeBase, BaseOf, session, table, bounds
<1>1. TypeOK'
  BY DEF IInv, TypeOK
<1>2. SoleAlone'
  BY DEF IInv, SoleAlone
<1>3. FreshOpen'
  BY DEF IInv, FreshOpen
<1>4. Shaken'
  BY DEF IInv, Shaken
<1>5. Closed'
  BY DEF IInv, Closed
<1>6. Synced'
  BY DEF IInv, Synced
<1>7. Basis'
  BY DEF IInv, TypeOK, SoleAlone, Synced, Basis
<1>. QED BY <1>1, <1>2, <1>3, <1>4, <1>5, <1>6, <1>7 DEF IInv

(* The state of the moment is taken only by a read without a baseline, which  *)
(* is one of a client that was told nothing yet.                              *)
LEMMA WaitIInv ==
  ASSUME NEW r \in Reads, IInv, Wait(r)
  PROVE  IInv'
<1>. USE DEF Wait, session, table, bounds
<1>1. TypeOK'
  BY DEF IInv, TypeOK
<1>2. SoleAlone'
  BY DEF IInv, SoleAlone
<1>3. FreshOpen'
  BY DEF IInv, FreshOpen
<1>4. Shaken'
  BY DEF IInv, Shaken
<1>5. Closed'
  BY DEF IInv, Closed
<1>6. Synced'
  BY DEF IInv, Synced
<1>7. Basis'
  BY DEF IInv, Basis
<1>. QED BY <1>1, <1>2, <1>3, <1>4, <1>5, <1>6, <1>7 DEF IInv

(* A read that did not give up returns a state other than its baseline.       *)
LEMMA WokenIInv ==
  ASSUME NEW r \in Reads, IInv, WaitChange(r) \/ GiveUp(r)
  PROVE  IInv'
<1>. USE DEF WaitChange, GiveUp, Woken, session, table, bounds
<1>1. TypeOK'
  BY DEF IInv, TypeOK
<1>2. SoleAlone'
  BY DEF IInv, TypeOK, SoleAlone
<1>3. FreshOpen'
  BY DEF IInv, TypeOK, FreshOpen
<1>4. Shaken'
  BY DEF IInv, TypeOK, Shaken
<1>5. Closed'
  BY DEF IInv, Closed
<1>6. Synced'
  BY DEF IInv, TypeOK, Synced
<1>7. Basis'
  BY DEF IInv, TypeOK, Basis
<1>. QED BY <1>1, <1>2, <1>3, <1>4, <1>5, <1>6, <1>7 DEF IInv

(* What a sole read stores is what it will answer; any other pending read     *)
(* belongs to a fid that is unsure or closed.                                 *)
LEMMA StoreIInv ==
  ASSUME NEW r \in Reads, IInv, Store(r)
  PROVE  IInv'
<1>. USE DEF Store, session, request, bounds
<1>1. TypeOK'
  BY DEF IInv, TypeOK
<1>2. SoleAlone'
  BY DEF IInv, SoleAlone
<1>3. FreshOpen'
  BY DEF IInv, FreshOpen
<1>4. Shaken'
  BY DEF IInv, Shaken
<1>5. Closed'
  BY DEF IInv, Closed
<1>6. Synced'
  BY DEF IInv, TypeOK, SoleAlone, Shaken, Synced
<1>7. Basis'
  BY DEF IInv, Basis
<1>. QED BY <1>1, <1>2, <1>3, <1>4, <1>5, <1>6, <1>7 DEF IInv

(* An answer that is surely heard, of a sole read that was not flushed, makes *)
(* what the client was told and the baseline equal. After any other the fid   *)
(* stays unsure, or it is closed.                                             *)
LEMMA AnswerIInv ==
  ASSUME NEW r \in Reads, IInv, Answer(r)
  PROVE  IInv'
<1>. USE DEF Answer, Ended, session, table, bounds
<1>1. TypeOK'
  BY DEF IInv, TypeOK
<1>2. SoleAlone'
  BY DEF IInv, SoleAlone
<1>3. FreshOpen'
  BY DEF IInv, TypeOK, FreshOpen
<1>4. Shaken'
  BY DEF IInv, TypeOK, SoleAlone, Shaken
<1>5. Closed'
  BY DEF IInv, TypeOK, FreshOpen, Closed
<1>6. Synced'
  <2>1. \A q \in sole' : pc'[q] = "stored" => waitBase'[on'[q]] = content'[q]
    BY DEF IInv, Synced
  <2>2. ASSUME NEW g \in Fids, g \notin unsure', seen'[g] # Unset
        PROVE  waitBase'[g] = seen'[g] \/ \E q \in sole' : on'[q] = g /\ pc'[q] = "stored"
    <3>1. CASE g # on[r]
      BY <2>2, <3>1 DEF IInv, TypeOK, Synced
    <3>2. CASE g = on[r] /\ r \in sole \ flushed
      BY <2>2, <3>2 DEF IInv, TypeOK, Synced
    <3>3. CASE g = on[r] /\ r \notin sole \ flushed
      BY <2>2, <3>3 DEF IInv, TypeOK, FreshOpen, Shaken, Synced
    <3>. QED BY <3>1, <3>2, <3>3
  <2>. QED BY <2>1, <2>2 DEF Synced
<1>7. Basis'
  BY DEF IInv, TypeOK, SoleAlone, Basis
<1>. QED BY <1>1, <1>2, <1>3, <1>4, <1>5, <1>6, <1>7 DEF IInv

(* A step that changes nothing keeps everything.                              *)
LEMMA StutterIInv == ASSUME IInv, UNCHANGED vars PROVE IInv'
  BY DEF vars, IInv, TypeOK, SoleAlone, FreshOpen, Shaken, Closed, Synced, Basis

(* Every step is one of the actions above.                                    *)
LEMMA NextIInv == IInv /\ [Next]_vars => IInv'
<1>. SUFFICES ASSUME IInv, [Next]_vars PROVE IInv'
  OBVIOUS
<1>1. CASE UNCHANGED vars
  BY <1>1, StutterIInv
<1>2. CASE \E f \in Fids : Clunk(f) \/ \E s \in Sessions : Open(f, s)
  BY <1>2, ClunkIInv, OpenIInv
<1>3. CASE \E r \in Reads : Flush(r) \/ \E f \in Fids : Read(r, f)
  BY <1>3, FlushIInv, ReadIInv
<1>4. CASE \E r \in Reads : Handler(r)
  BY <1>4, MissIInv, TakeBaseIInv, WaitIInv, WokenIInv, StoreIInv, AnswerIInv DEF Handler
<1>5. CASE \E s \in Sessions : Kill(s) \/ \E v \in States : Change(s, v)
  BY <1>5, SessionIInv
<1>. QED BY <1>1, <1>2, <1>3, <1>4, <1>5 DEF Next

------------------------------------------------------------------------------
(* The inductive invariant holds of every behaviour.                          *)
LEMMA Invariance == Spec => []IInv
<1>1. Init => IInv
  BY InitIInv
<1>2. IInv /\ [Next]_vars => IInv'
  BY NextIInv
<1>. QED BY <1>1, <1>2, PTL DEF Spec

(* Every variable of the fids and reads keeps its type, and a read has a      *)
(* session exactly while it is under way (server.go 933-965).                 *)
THEOREM TypeCorrect == Spec => []TypeOK
<1>1. IInv => TypeOK
  BY DEF IInv
<1>. QED BY <1>1, Invariance, PTL

(* A read that nothing overlapped, flushed or closed waits on what the client *)
(* was told last and returns something else unless it gave up, whatever the   *)
(* other reads, fids and sessions do meanwhile (server.go 940-963).           *)
THEOREM NothingMissed == Spec => []NoChangeMissed
<1>1. IInv => NoChangeMissed
  BY DEF IInv, Basis, NoChangeMissed
<1>. QED BY <1>1, Invariance, PTL

------------------------------------------------------------------------------
(* CFG                                                                        *)

(* The write has its copy of the parameters.                                  *)
UnderWay(w) == stage[w] \in {"lines", "submit", "set"}

(* What a write will put back under a name none of its lines set was accepted *)
(* at some time, and is what the last accepted write wanted unless another    *)
(* write came in between.                                                     *)
CopyAccepted ==
    \A w \in Writers : UnderWay(w) => \A k \in Keys \ named[w] : p[w][k] \in accepted[k]
CopyCurrent ==
    \A w \in Writers : UnderWay(w) =>
        \A k \in Keys \ (named[w] \union since[w] \union overtaken) : p[w][k] = last[k]

(* The inductive invariant of the cfg writes.                                 *)
ConfigIInv ==
    /\ ConfigTypeOK
    /\ CopyAccepted /\ ParamsFromAccepted
    /\ CopyCurrent /\ LostOnlyToOverlap

USE NotSetIsNoValue, MaxTurnsNat

------------------------------------------------------------------------------
(* At first everything has its default, which counts as accepted. *)
LEMMA InitConfigIInv == ConfigInit => ConfigIInv
<1>. SUFFICES ASSUME ConfigInit PROVE ConfigIInv
  OBVIOUS
<1>. USE DEF ConfigInit
<1>1. Defaults \in Params
  BY DEF Defaults, Params
<1>2. ConfigTypeOK
  <2>1. accepted \in [Keys -> SUBSET (Values \union {NotSet})]
    OBVIOUS
  <2>2. turns \in 0..MaxTurns
    BY MaxTurnsNat
  <2>3. stage \in [Writers -> {"new", "lines", "submit", "set", "ok", "failed"}]
    OBVIOUS
  <2>. QED BY <1>1, <2>1, <2>2, <2>3 DEF ConfigTypeOK
<1>3. CopyAccepted /\ CopyCurrent
  BY DEF CopyAccepted, CopyCurrent, UnderWay
<1>4. ParamsFromAccepted /\ LostOnlyToOverlap
  BY DEF Defaults, ParamsFromAccepted, LostOnlyToOverlap
<1>. QED BY <1>2, <1>3, <1>4 DEF ConfigIInv

(* A write that begins copies what is set, which is what the last accepted    *)
(* writes wanted wherever nothing was overtaken.                              *)
LEMMA BeginIInv ==
  ASSUME ConfigIInv, NEW w \in Writers, Begin(w)
  PROVE  ConfigIInv'
<1>. USE DEF ConfigIInv, Begin, BeginWith, Goto, core, agent, history, UnderWay
<1>1. ConfigTypeOK'
  BY DEF ConfigTypeOK, Params
<1>2. (CopyAccepted /\ ParamsFromAccepted)'
  BY DEF ConfigTypeOK, Params, CopyAccepted, ParamsFromAccepted
<1>3. (CopyCurrent /\ LostOnlyToOverlap)'
  BY DEF ConfigTypeOK, Params, CopyCurrent, LostOnlyToOverlap
<1>. QED BY <1>1, <1>2, <1>3

(* A line about a parameter touches the copy of its own write, and what it    *)
(* sets counts as named from then on.                                         *)
LEMMA ParamLineIInv ==
  ASSUME ConfigIInv, NEW w \in Writers, NEW k \in Keys,
         UnparsedLine(w, k) \/ \E v \in Values \union {NotSet} : ParamLine(w, k, v)
  PROVE  ConfigIInv'
<1>. USE DEF ConfigIInv, core, agent, history, UnderWay
<1>1. CASE UnparsedLine(w, k)
  BY <1>1 DEF UnparsedLine, ConfigTypeOK, Params, CopyAccepted, ParamsFromAccepted, CopyCurrent,
     LostOnlyToOverlap
<1>2. ASSUME NEW v \in Values \union {NotSet}, ParamLine(w, k, v)
      PROVE  ConfigIInv'
  <2>. USE <1>2 DEF ParamLine, AssignLine
  <2>1. ConfigTypeOK'
    BY DEF ConfigTypeOK, Params
  <2>2. \A o \in Writers, j \in Keys : j \notin named'[o] => j \notin named[o]
            /\ p'[o][j] = p[o][j]
    BY DEF ConfigTypeOK, Params
  <2>3. (CopyAccepted /\ ParamsFromAccepted)'
    BY <2>2 DEF CopyAccepted, ParamsFromAccepted
  <2>4. (CopyCurrent /\ LostOnlyToOverlap)'
    BY <2>2 DEF CopyCurrent, LostOnlyToOverlap
  <2>. QED BY <2>1, <2>3, <2>4
<1>. QED BY <1>1, <1>2

(* A write that returns without setting anything is forgotten. *)
LEMMA ReturnIInv ==
  ASSUME ConfigIInv, NEW w \in Writers, NEW label \in {"ok", "failed"}, Return(w, label),
         UNCHANGED <<core, agent, since, history>>
  PROVE  ConfigIInv'
<1>. USE DEF ConfigIInv, Return, Goto, core, agent, history
<1>1. Defaults \in Params
  BY DEF Defaults, Params
<1>2. ConfigTypeOK'
  BY <1>1 DEF ConfigTypeOK
<1>3. \A o \in Writers : UnderWay(o)' =>
        o # w /\ UnderWay(o) /\ named'[o] = named[o] /\ p'[o] = p[o] /\ since'[o] = since[o]
  BY DEF UnderWay, ConfigTypeOK
<1>4. (CopyAccepted /\ ParamsFromAccepted)'
  BY <1>3 DEF CopyAccepted, ParamsFromAccepted
<1>5. (CopyCurrent /\ LostOnlyToOverlap)'
  BY <1>3 DEF CopyCurrent, LostOnlyToOverlap
<1>. QED BY <1>2, <1>4, <1>5

(* A check that finds a turn ends the write; one that does not goes on.       *)
LEMMA CheckIInv ==
  ASSUME ConfigIInv, NEW w \in Writers, SwitchLine(w) \/ EndParams(w)
  PROVE  ConfigIInv'
<1>. USE DEF ConfigIInv, core, agent, history, UnderWay
<1>1. stage[w] = "lines" /\ (Check(w, "submit") \/ Check(w, "set"))
  BY DEF SwitchLine, EndParams
<1>2. CASE running
  BY <1>1, <1>2, ReturnIInv DEF Check
<1>3. CASE ~running
  <2>1. /\ UNCHANGED <<core, agent, since, history, p, hasParams, named>>
        /\ stage' \in {[stage EXCEPT ![w] = "submit"], [stage EXCEPT ![w] = "set"]}
    BY <1>1, <1>3 DEF Check, Goto
  <2>2. ConfigTypeOK'
    BY <2>1 DEF ConfigTypeOK
  <2>3. \A o \in Writers : UnderWay(o)' => UnderWay(o)
    BY <1>1, <2>1 DEF ConfigTypeOK
  <2>4. (CopyAccepted /\ ParamsFromAccepted)'
    BY <2>1, <2>3 DEF CopyAccepted, ParamsFromAccepted
  <2>5. (CopyCurrent /\ LostOnlyToOverlap)'
    BY <2>1, <2>3 DEF CopyCurrent, LostOnlyToOverlap
  <2>. QED BY <2>2, <2>4, <2>5
<1>. QED BY <1>2, <1>3

(* Switches and directories have nothing to do with the parameters. *)
LEMMA SideLineIInv ==
  ASSUME ConfigIInv, NEW w \in Writers, SubmitSwitch(w) \/ CwdLine(w)
  PROVE  ConfigIInv'
<1>. USE DEF SubmitSwitch, CwdLine, Goto, ConfigIInv, core, agent, write, history
<1>1. ConfigTypeOK'
  BY DEF ConfigTypeOK, Params
<1>2. UNCHANGED <<params, p, named, since, last, accepted, overtaken>>
  OBVIOUS
<1>3. \A o \in Writers : UnderWay(o)' => UnderWay(o)
  BY DEF UnderWay, ConfigTypeOK
<1>4. (CopyAccepted /\ ParamsFromAccepted)'
  BY <1>2, <1>3 DEF CopyAccepted, ParamsFromAccepted
<1>5. (CopyCurrent /\ LostOnlyToOverlap)'
  BY <1>2, <1>3 DEF CopyCurrent, LostOnlyToOverlap
<1>. QED BY <1>1, <1>4, <1>5

(* A write that ends without setting parameters returns.                      *)
LEMMA EndIInv ==
  ASSUME ConfigIInv, NEW w \in Writers, Fail(w) \/ EndPlain(w)
  PROVE  ConfigIInv'
  BY ReturnIInv DEF Fail, EndPlain

(* The copy is put back.  A parameter it names is what it wants; another one  *)
(* is what it was unless somebody set it meanwhile, and then is overtaken.    *)
LEMMA SetParamsIInv ==
  ASSUME ConfigIInv, NEW w \in Writers, SetParams(w)
  PROVE  ConfigIInv'
<1>. USE DEF ConfigIInv, agent
<1>1. stage[w] = "set" /\ UnderWay(w)
  BY DEF SetParams, UnderWay
<1>2. /\ p \in [Writers -> Params] /\ named \in [Writers -> SUBSET Keys]
      /\ since \in [Writers -> SUBSET Keys] /\ p[w] \in Params
      /\ last \in Params /\ accepted \in [Keys -> SUBSET (Values \union {NotSet})]
      /\ stage \in [Writers -> {"new", "lines", "submit", "set", "ok", "failed"}]
  BY DEF ConfigTypeOK
<1>3. /\ params' = p[w]
      /\ \A k \in Keys : /\ k \in named[w] => last'[k] = p[w][k] /\ p[w][k] \in accepted'[k]
                         /\ k \notin named[w] => last'[k] = last[k]
                         /\ accepted[k] \subseteq accepted'[k]
  BY DEF SetParams
<1>4. overtaken' = (overtaken \union since[w]) \ named[w]
  BY DEF SetParams
<1>5. \A o \in Writers : UnderWay(o)' =>
        o # w /\ UnderWay(o) /\ named'[o] = named[o] /\ p'[o] = p[o] /\ since'[o] = since[o]
            \union named[w]
  BY <1>2 DEF SetParams, Return, Goto, UnderWay
<1>6. ConfigTypeOK'
  <2>1. last' \in Params /\ params' \in Params
    BY <1>2 DEF SetParams, Params
  <2>2. accepted' \in [Keys -> SUBSET (Values \union {NotSet})]
    <3>1. \A k \in Keys : p[w][k] \in Values \union {NotSet} /\ accepted[k] \subseteq Values
              \union {NotSet}
      BY <1>2 DEF Params
    <3>. QED BY <3>1 DEF SetParams
  <2>3. since' \in [Writers -> SUBSET Keys] /\ overtaken' \subseteq Keys
    BY <1>2 DEF SetParams, ConfigTypeOK
  <2>4. p' \in [Writers -> Params] /\ named' \in [Writers -> SUBSET Keys]
    BY <1>2 DEF SetParams, Return, Defaults, Params
  <2>. QED
    BY <2>1, <2>2, <2>3, <2>4 DEF SetParams, Return, Goto, ConfigTypeOK
<1>7. ParamsFromAccepted'
  BY <1>1, <1>3 DEF ParamsFromAccepted, CopyAccepted
<1>8. CopyAccepted'
  BY <1>3, <1>5 DEF CopyAccepted
<1>9. LostOnlyToOverlap'
  BY <1>1, <1>3, <1>4 DEF LostOnlyToOverlap, CopyCurrent
<1>10. CopyCurrent'
  <2>. SUFFICES ASSUME NEW o \in Writers, UnderWay(o)', NEW k \in Keys,
                       k \notin named'[o], k \notin since'[o], k \notin overtaken'
                PROVE  p'[o][k] = last'[k]
    BY DEF CopyCurrent
  <2>1. k \notin named[o] /\ k \notin since[o] /\ k \notin named[w]
    BY <1>5
  <2>2. k \notin overtaken
    BY <1>4, <2>1
  <2>. QED BY <1>3, <1>5, <2>1, <2>2 DEF CopyCurrent
<1>. QED BY <1>6, <1>7, <1>8, <1>9, <1>10

(* A turn touches no parameter. *)
LEMMA TurnIInv ==
  ASSUME ConfigIInv, TurnStart \/ TurnEnd
  PROVE  ConfigIInv'
<1>. USE DEF TurnStart, TurnEnd, ConfigIInv, core, write, history, UnderWay
<1>1. ConfigTypeOK'
  <2>1. UNCHANGED <<params, model, cwd, stage, p, hasParams, named, since, last, accepted,
            overtaken>>
    OBVIOUS
  <2>2. running \in BOOLEAN /\ turns \in 0..MaxTurns
    BY DEF ConfigTypeOK
  <2>3. running' \in BOOLEAN
    BY <2>2
  <2>4. turns' \in 0..MaxTurns
    BY <2>2, MaxTurnsNat
  <2>. QED BY <2>1, <2>3, <2>4 DEF ConfigTypeOK, Params
<1>2. (CopyAccepted /\ ParamsFromAccepted /\ CopyCurrent /\ LostOnlyToOverlap)'
  BY DEF CopyAccepted, ParamsFromAccepted, CopyCurrent, LostOnlyToOverlap
<1>. QED BY <1>1, <1>2

(* A step that changes nothing preserves it, too.                             *)
LEMMA StutterConfigIInv ==
  ASSUME ConfigIInv, UNCHANGED configVars
  PROVE  ConfigIInv'
  BY DEF configVars, ConfigIInv, UnderWay, ConfigTypeOK, Params, CopyAccepted, ParamsFromAccepted,
     CopyCurrent, LostOnlyToOverlap

------------------------------------------------------------------------------
(* So it holds at all times.                                                  *)
LEMMA ConfigInvariance == ConfigSpec => []ConfigIInv
<1>1. ConfigIInv /\ [ConfigNext]_configVars => ConfigIInv'
  <2>. SUFFICES ASSUME ConfigIInv, [ConfigNext]_configVars PROVE ConfigIInv'
    OBVIOUS
  <2>1. ASSUME NEW w \in Writers, Begin(w) PROVE ConfigIInv'
    BY <2>1, BeginIInv
  <2>2. ASSUME NEW w \in Writers, Line(w) PROVE ConfigIInv'
    BY <2>2, ParamLineIInv, CheckIInv, SideLineIInv, EndIInv DEF Line
  <2>3. ASSUME NEW w \in Writers, EndParams(w) \/ EndPlain(w) PROVE ConfigIInv'
    BY <2>3, CheckIInv, EndIInv
  <2>4. ASSUME NEW w \in Writers, SetParams(w) PROVE ConfigIInv'
    BY <2>4, SetParamsIInv
  <2>5. CASE TurnStart \/ TurnEnd
    BY <2>5, TurnIInv
  <2>6. CASE UNCHANGED configVars
    BY <2>6, StutterConfigIInv
  <2>. QED BY <2>1, <2>2, <2>3, <2>4, <2>5, <2>6 DEF ConfigNext
<1>. QED BY InitConfigIInv, <1>1, PTL DEF ConfigSpec

(* The variables have their types. *)
THEOREM ConfigTypeCorrect == ConfigSpec => []ConfigTypeOK
<1>1. ConfigIInv => ConfigTypeOK
  BY DEF ConfigIInv
<1>. QED BY <1>1, ConfigInvariance, PTL

(* A rejected write leaves the parameters as they are: each has a value some  *)
(* accepted write gave it, or its default.                                    *)
THEOREM RejectedLeavesNoTrace == ConfigSpec => []ParamsFromAccepted
<1>1. ConfigIInv => ParamsFromAccepted
  BY DEF ConfigIInv
<1>. QED BY <1>1, ConfigInvariance, PTL

(* Only writes that overlap another one lose updates. *)
THEOREM PartialWrites == ConfigSpec => []LostOnlyToOverlap
<1>1. ConfigIInv => LostOnlyToOverlap
  BY DEF ConfigIInv
<1>. QED BY <1>1, ConfigInvariance, PTL
==============================================================================
