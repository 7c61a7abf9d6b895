--------------------------- MODULE SessionLogProofs ---------------------------
(* Proofs about SessionLog for any turns, commands, budget and chunk size.    *)
EXTENDS SessionLog, SequenceTheorems, TLAPS

Pieces == [by : Publishers \union {Nobody}, kind : Kinds]

(* The version counts the appends; a stat is of some moment, or of an empty   *)
(* log and a later one.                                                       *)
Counted ==
    /\ vers = Len(log)
    /\ stat \in [len : Nat, vers : Nat] /\ stat.len <= Len(log)
    /\ statting = "empty" => stat.vers = 0
    /\ statting = "idle" => stat.vers = 0 \/ stat.len = stat.vers

(* What was copied and what was read are beginnings of the log.               *)
Begins(s) == s \in Seq(Pieces) /\ Len(s) <= Len(log) /\ \A i \in 1 .. Len(s) : s[i] = log[i]
Copied == Begins(copy) /\ Begins(got)

(* The core runs one turn; a command never is within an answer; the event a   *)
(* closure is about to append is text exactly when an answer has begun.       *)
Busy == {"opening", "ready", "labelled", "event"}
InTurn ==
    /\ \A p \in Turns : pc[p] \in Busy <=> running = p
    /\ \A p \in Commands : pc[p] = "ready" /\ ~started[p]
    /\ \A p \in Publishers :
        /\ pc[p] = "labelled" => event[p] = "assistant"
        /\ pc[p] = "event" => (event[p] = "assistant" <=> started[p])
        /\ pc[p] = "event" => event[p] # "none"
        /\ started[p] => pc[p] \in {"ready", "event", "returned", "done"}

(* An answer of p is open: its label, and nothing of p but text behind it.    *)
Answering(p) ==
    \E j \in 1 .. Len(log) :
        /\ log[j] = Piece(p, "label")
        /\ \A k \in j + 1 .. Len(log) : log[k].by = p => log[k].kind = "text"

(* The last piece of p is not of an answer.                                   *)
AtRest(p) ==
    \A i \in 1 .. Len(log) :
        log[i].by = p /\ (\A k \in i + 1 .. Len(log) : log[k].by # p)
            => log[i].kind \notin {"label", "text"}

(* started tells which of the two it is, until the turn has returned.         *)
StartedTells ==
    \A p \in Publishers :
        /\ (started[p] /\ pc[p] \in Busy) \/ pc[p] = "labelled" => Answering(p)
        /\ ~started[p] /\ pc[p] \in {"new", "spawned", "opening", "ready", "event"} => AtRest(p)

(* Answers are of turns; between the label and the mark of the offset the     *)
(* other publishers add neither labels nor text.                              *)
OfTurns == \A i \in 1 .. Len(log) : log[i].kind \in {"label", "text"} => log[i].by \in Turns
LastLabel(p) ==
    \E i \in 1 .. Len(log) :
        /\ log[i] = Piece(p, "label")
        /\ \A j \in i + 1 .. Len(log) : log[j].kind \notin {"label", "text"}
Marking == \A p \in Publishers : pc[p] = "labelled" => LastLabel(p)

IInv ==
    /\ TypeOK
    /\ Counted /\ Copied
    /\ InTurn /\ StartedTells /\ OfTurns /\ Marking
    /\ AnswersAreLabelled /\ AnswersAreClosed /\ AnswerAfterOffset

USE PublishersDistinct, RolesKnown, BoundsNat

------------------------------------------------------------------------------
(* What an append of x does to the log.                                       *)
Grows(x) ==
    /\ log' \in Seq(Pieces) /\ Len(log) \in Nat /\ Len(log') = Len(log) + 1
    /\ \A i \in 1 .. Len(log) : log'[i] = log[i]
    /\ log'[Len(log) + 1] = x

LEMMA AppendGrows ==
  ASSUME IInv, NEW x \in Pieces, log' = Append(log, x)
  PROVE  Grows(x)
BY AppendProperties DEF IInv, TypeOK, Pieces, Grows

(* Of the other publishers an append changes nothing; its own answer is open  *)
(* or not as the kind of the piece says.                                      *)
LEMMA AppendOthers ==
  ASSUME IInv, NEW x \in Pieces, Grows(x), NEW p \in Publishers, p # x.by
  PROVE  /\ Answering(p) => Answering(p)'
         /\ AtRest(p) => AtRest(p)'
<1>. USE DEF Grows
<1>1. \A i \in 1 .. Len(log') : i \in 1 .. Len(log) \/ i = Len(log) + 1
  OBVIOUS
<1>2. Answering(p) => Answering(p)'
  BY <1>1 DEF Answering
<1>3. AtRest(p) => AtRest(p)'
  <2>. SUFFICES ASSUME AtRest(p), NEW i \in 1 .. Len(log'), log'[i].by = p,
                       \A k \in i + 1 .. Len(log') : log'[k].by # p
                PROVE  log'[i].kind \notin {"label", "text"}
    BY DEF AtRest
  <2>1. i \in 1 .. Len(log)
    BY <1>1
  <2>2. \A k \in i + 1 .. Len(log) : log[k].by # p
    BY <2>1
  <2>. QED BY <2>1, <2>2 DEF AtRest
<1>. QED BY <1>2, <1>3

LEMMA AppendOwn ==
  ASSUME IInv, NEW x \in Pieces, Grows(x)
  PROVE  /\ x = Piece(x.by, "label") => Answering(x.by)' /\ LastLabel(x.by)'
         /\ x.kind = "text" /\ Answering(x.by) => Answering(x.by)'
         /\ x.kind \notin {"label", "text"} => AtRest(x.by)'
         /\ x.kind \notin {"label", "text"} => \A p \in Publishers : LastLabel(p) => LastLabel(p)'
<1>. USE DEF Grows
<1>1. \A i \in 1 .. Len(log') : i \in 1 .. Len(log) \/ i = Len(log) + 1
  OBVIOUS
<1>2. Len(log) + 1 \in 1 .. Len(log') /\ 1 .. Len(log) \subseteq 1 .. Len(log')
  OBVIOUS
<1>3. x = Piece(x.by, "label") => Answering(x.by)' /\ LastLabel(x.by)'
  BY <1>2 DEF Answering, LastLabel
<1>4. x.kind = "text" /\ Answering(x.by) => Answering(x.by)'
  BY <1>1, <1>2 DEF Answering
<1>5. x.kind \notin {"label", "text"} => AtRest(x.by)'
  <2>. SUFFICES ASSUME x.kind \notin {"label", "text"},
                       NEW i \in 1 .. Len(log'), log'[i].by = x.by,
                       \A k \in i + 1 .. Len(log') : log'[k].by # x.by
                PROVE  log'[i].kind \notin {"label", "text"}
    BY DEF AtRest
  <2>1. i \notin 1 .. Len(log)
    OBVIOUS
  <2>. QED BY <1>1, <2>1
<1>6. x.kind \notin {"label", "text"} => \A p \in Publishers : LastLabel(p) => LastLabel(p)'
  BY <1>1, <1>2 DEF LastLabel
<1>. QED BY <1>3, <1>4, <1>5, <1>6

(* An append keeps what is said of the log as a whole if it begins an answer  *)
(* at rest, continues one that is open, and ends it with a newline.           *)
LEMMA AppendKeeps ==
  ASSUME IInv, NEW x \in Pieces, Grows(x), vers' = vers + 1, UNCHANGED <<offset, client>>,
         x.kind = "text" => Answering(x.by),
         x.kind \notin {"text", "nl"} => AtRest(x.by),
         x.kind \in {"label", "text"} => x.by \in Turns,
         x.kind = "label" => pc'[x.by] = "labelled",
         \A p \in Publishers : pc[p] = "labelled" => pc'[p] = "labelled"
  PROVE  /\ Counted' /\ Copied' /\ OfTurns' /\ offset' \in 0 .. Len(log')
         /\ AnswersAreLabelled' /\ AnswersAreClosed' /\ AnswerAfterOffset'
<1>. USE DEF Grows, client
<1>1. \A i \in 1 .. Len(log') : i \in 1 .. Len(log) \/ i = Len(log) + 1
  OBVIOUS
<1>2. Len(log) + 1 \in 1 .. Len(log') /\ 1 .. Len(log) \subseteq 1 .. Len(log')
  OBVIOUS
<1>3. offset \in 0 .. Len(log) /\ offset' = offset
  BY DEF IInv, TypeOK
<1>4. Counted'
  BY DEF IInv, Counted
<1>5. Copied'
  BY DEF IInv, Copied, Begins
<1>6. OfTurns'
  BY <1>1 DEF IInv, OfTurns
<1>7. AnswersAreLabelled'
  <2>. SUFFICES ASSUME NEW i \in 1 .. Len(log'), log'[i].kind = "text"
                PROVE  \E j \in 1 .. i - 1 :
                         /\ log'[j] = Piece(log'[i].by, "label")
                         /\ \A k \in j + 1 .. i - 1 :
                              log'[k].by = log'[i].by => log'[k].kind = "text"
    BY DEF AnswersAreLabelled
  <2>1. CASE i \in 1 .. Len(log)
    BY <2>1 DEF IInv, AnswersAreLabelled
  <2>2. CASE i = Len(log) + 1
    BY <2>2 DEF Answering
  <2>. QED BY <1>1, <2>1, <2>2
<1>8. AnswersAreClosed'
  <2>. SUFFICES ASSUME NEW i \in 1 .. Len(log'), NEW j \in 1 .. Len(log'),
                       i < j, log'[i].by = log'[j].by, log'[i].kind \in {"label", "text"},
                       \A k \in i + 1 .. j - 1 : log'[k].by # log'[i].by
                PROVE  log'[j].kind \in {"text", "nl"}
    BY DEF AnswersAreClosed
  <2>1. i \in 1 .. Len(log)
    BY <1>1
  <2>2. CASE j \in 1 .. Len(log)
    BY <2>1, <2>2 DEF IInv, AnswersAreClosed
  <2>3. CASE j = Len(log) + 1
    BY <2>1, <2>3 DEF AtRest
  <2>. QED BY <1>1, <2>2, <2>3
<1>9. AnswerAfterOffset'
  <2>. SUFFICES ASSUME NEW i \in 1 .. Len(log'),
                       log'[i].kind = "label", pc'[log'[i].by] # "labelled",
                       \A j \in i + 1 .. Len(log') : log'[j].kind # "label"
                PROVE  offset >= i /\ \A j \in i + 1 .. offset : log'[j].kind # "text"
    BY <1>3 DEF AnswerAfterOffset
  <2>1. i \in 1 .. Len(log)
    BY <1>1
  <2>2. log[i].by \in Publishers
    BY <2>1 DEF IInv, OfTurns, Publishers
  <2>3. offset >= i /\ \A j \in i + 1 .. offset : log[j].kind # "text"
    BY <1>2, <2>1, <2>2 DEF IInv, AnswerAfterOffset
  <2>. QED BY <1>3, <2>1, <2>3
<1>. QED BY <1>2, <1>3, <1>4, <1>5, <1>6, <1>7, <1>8, <1>9

(* A step that appends nothing and ends no labelling keeps it too.            *)
LEMMA QuietKeeps ==
  ASSUME IInv, UNCHANGED <<log, vers, offset, client>>,
         \A p \in Publishers : pc[p] = "labelled" => pc'[p] = "labelled"
  PROVE  /\ Counted' /\ Copied' /\ OfTurns' /\ offset' \in 0 .. Len(log')
         /\ AnswersAreLabelled' /\ AnswersAreClosed' /\ AnswerAfterOffset'
<1>. USE DEF client
<1>1. Counted' /\ Copied' /\ OfTurns' /\ offset' \in 0 .. Len(log')
  BY DEF IInv, TypeOK, Counted, Copied, Begins, OfTurns
<1>2. AnswersAreLabelled' /\ AnswersAreClosed'
  BY DEF IInv, AnswersAreLabelled, AnswersAreClosed
<1>3. AnswerAfterOffset'
  BY DEF IInv, OfTurns, Publishers, AnswerAfterOffset
<1>. QED BY <1>1, <1>2, <1>3

(* What is open or at rest depends on the log alone.                          *)
LEMMA SameLog ==
  ASSUME UNCHANGED log, NEW p
  PROVE  /\ Answering(p) => Answering(p)'
         /\ AtRest(p) => AtRest(p)'
         /\ LastLabel(p) => LastLabel(p)'
BY DEF Answering, AtRest, LastLabel

------------------------------------------------------------------------------
(* Nothing is said at first. *)
LEMMA InitIInv == Init => IInv
<1>. SUFFICES ASSUME Init PROVE IInv
  OBVIOUS
<1>. USE EmptySeq DEF Init
<1>1. TypeOK
  <2>1. /\ log \in Seq([by : Publishers \union {Nobody}, kind : Kinds])
        /\ offset \in 0 .. Len(log) /\ used \in 0 .. Budget
    BY BoundsNat
  <2>. QED BY <2>1 DEF TypeOK
<1>2. Counted /\ Copied
  BY DEF Counted, Copied, Begins
<1>3. InTurn
  BY DEF InTurn, Publishers, Busy
<1>4. StartedTells /\ OfTurns /\ Marking
  BY DEF StartedTells, AtRest, OfTurns, Marking, Publishers
<1>5. AnswersAreLabelled /\ AnswersAreClosed /\ AnswerAfterOffset
  BY DEF AnswersAreLabelled, AnswersAreClosed, AnswerAfterOffset
<1>. QED BY <1>1, <1>2, <1>3, <1>4, <1>5 DEF IInv

(* The turn moves from the prompt to the core and back. *)
LEMMA TurnIInv ==
  ASSUME NEW p \in Publishers, IInv, WritePrompt(p) \/ Submit(p) \/ Return(p)
  PROVE  IInv'
<1>1. /\ pc[p] \in {"new", "spawned", "ready"}
      /\ \/ pc[p] = "new" /\ pc' = [pc EXCEPT ![p] = "spawned"] /\ running' = running
         \/ /\ pc[p] = "spawned" /\ pc' = [pc EXCEPT ![p] = "opening"]
            /\ running = Nobody /\ running' = p
         \/ /\ pc[p] = "ready" /\ pc' = [pc EXCEPT ![p] = "returned"]
            /\ p \in Turns /\ running' = Nobody
      /\ p \in Turns /\ (prev' = prev \/ prev' = p)
      /\ UNCHANGED <<log, vers, offset, started, event, renaming, client, used>>
  BY DEF WritePrompt, Submit, Return, Goto, IInv, InTurn, Publishers, client
<1>2. TypeOK'
  BY <1>1 DEF IInv, TypeOK, client
<1>3. InTurn'
  BY <1>1 DEF IInv, TypeOK, InTurn, Publishers, Busy
<1>4. StartedTells' /\ Marking'
  BY <1>1, SameLog DEF IInv, TypeOK, InTurn, StartedTells, Marking, Busy
<1>5. \A q \in Publishers : pc[q] = "labelled" => pc'[q] = "labelled"
  BY <1>1 DEF IInv, TypeOK
<1>. QED BY <1>1, <1>2, <1>3, <1>4, <1>5, QuietKeeps DEF IInv

(* The newline behind a turn that returned is of no answer. *)
LEMMA EnsureIInv ==
  ASSUME NEW p \in Publishers, IInv, EnsureTrailingNewline(p)
  PROVE  IInv'
<1>. USE DEF EnsureTrailingNewline, Goto
<1>. DEFINE x == Piece(p, "nl")
<1>1. x \in Pieces /\ x.by = p /\ x.kind = "nl"
  BY DEF Piece, Pieces, Kinds
<1>. HIDE DEF x
<1>2. InTurn' /\ \A q \in Publishers : pc[q] = "labelled" => pc'[q] = "labelled"
  BY DEF IInv, TypeOK, InTurn, Publishers, Busy
<1>3. CASE log' = Append(log, x) /\ vers' = vers + 1
  <2>1. Grows(x)
    BY <1>1, <1>3, AppendGrows
  <2>2. /\ Counted' /\ Copied' /\ OfTurns' /\ offset' \in 0 .. Len(log')
        /\ AnswersAreLabelled' /\ AnswersAreClosed' /\ AnswerAfterOffset'
    BY <1>1, <1>2, <1>3, <2>1, AppendKeeps
  <2>3. TypeOK'
    BY <1>3, <2>1, <2>2 DEF IInv, TypeOK, Counted, Grows, Pieces, client
  <2>4. StartedTells'
    BY <1>1, <2>1, AppendOthers DEF IInv, TypeOK, StartedTells, Busy
  <2>5. Marking'
    BY <1>1, <2>1, AppendOwn DEF IInv, TypeOK, Marking
  <2>. QED BY <1>2, <2>2, <2>3, <2>4, <2>5 DEF IInv
<1>4. CASE UNCHANGED <<log, vers>>
  <2>1. TypeOK'
    BY <1>4 DEF IInv, TypeOK, client
  <2>2. StartedTells' /\ Marking'
    BY <1>4, SameLog DEF IInv, TypeOK, StartedTells, Marking, Busy
  <2>. QED BY <1>2, <1>4, <2>1, <2>2, QuietKeeps DEF IInv
<1>. QED BY <1>3, <1>4 DEF AppendLog, x

(* An event that continues is text of the open answer, or another at rest.    *)
LEMMA PublishOnIInv ==
  ASSUME NEW p \in Publishers, NEW role \in Roles(p), IInv, PublishOn(p, role)
  PROVE  IInv'
<1>. USE DEF PublishOn, Emits, Goto
<1>. DEFINE x == Formatted(p, role)
<1>1. role \in {"user", "assistant", "line", "bare"} /\ pc[p] \in {"opening", "ready"}
  BY DEF Roles
<1>2. x \in Pieces /\ x.by = p /\ x.kind = IF role = "assistant" THEN "text" ELSE role
  BY <1>1 DEF Formatted, Piece, Pieces, Kinds
<1>. HIDE DEF x
<1>3. InTurn' /\ \A q \in Publishers : pc[q] = "labelled" => pc'[q] = "labelled"
  BY <1>1 DEF IInv, TypeOK, InTurn, Publishers, Busy
<1>4. used' \in 0 .. Budget
  BY BoundsNat DEF IInv, TypeOK
<1>5. IF role = "assistant" THEN started[p] /\ Answering(p) /\ p \in Turns /\ running = p
                            ELSE ~started[p] /\ AtRest(p)
  BY <1>1 DEF IInv, TypeOK, InTurn, StartedTells, Publishers, Busy
<1>6. CASE log' = Append(log, x) /\ vers' = vers + 1
  <2>1. Grows(x)
    BY <1>2, <1>6, AppendGrows
  <2>2. /\ Counted' /\ Copied' /\ OfTurns' /\ offset' \in 0 .. Len(log')
        /\ AnswersAreLabelled' /\ AnswersAreClosed' /\ AnswerAfterOffset'
    BY <1>1, <1>2, <1>3, <1>5, <1>6, <2>1, AppendKeeps
  <2>3. TypeOK'
    BY <1>4, <1>6, <2>1, <2>2 DEF IInv, TypeOK, Counted, Grows, Pieces, client
  <2>4. StartedTells'
    <3>1. IF role = "assistant" THEN Answering(p)' ELSE AtRest(p)'
      BY <1>1, <1>2, <1>5, <2>1, AppendOwn
    <3>. QED BY <1>1, <1>2, <1>5, <2>1, <3>1, AppendOthers DEF IInv, TypeOK, StartedTells, Busy
  <2>5. Marking'
    BY <1>1, <1>2, <1>5, <2>1, AppendOwn DEF IInv, TypeOK, Marking, InTurn, Busy, Publishers
  <2>. QED BY <1>3, <2>2, <2>3, <2>4, <2>5 DEF IInv
<1>7. CASE UNCHANGED <<log, vers>>
  <2>1. TypeOK'
    BY <1>4, <1>7 DEF IInv, TypeOK, client
  <2>2. StartedTells' /\ Marking'
    BY <1>1, <1>5, <1>7, SameLog DEF IInv, TypeOK, StartedTells, Marking, Busy
  <2>. QED BY <1>3, <1>7, <2>1, <2>2, QuietKeeps DEF IInv
<1>. QED BY <1>6, <1>7 DEF AppendEvent, AppendLog, x

(* A label begins an answer at rest. *)
LEMMA PublishLabelIInv ==
  ASSUME NEW p \in Publishers, IInv, PublishLabel(p)
  PROVE  IInv'
<1>. USE DEF PublishLabel, Emits, Goto, AppendLog
<1>. DEFINE x == Piece(p, "label")
<1>1. pc[p] = "ready" /\ "assistant" \in Roles(p) /\ p \in Turns /\ running = p
  BY DEF Roles, Publishers, IInv, InTurn, Busy
<1>2. x \in Pieces /\ x.by = p /\ x.kind = "label" /\ x = Piece(x.by, "label")
  BY DEF Piece, Pieces, Kinds
<1>3. log' = Append(log, x)
  OBVIOUS
<1>. HIDE DEF x
<1>4. Grows(x)
  BY <1>2, <1>3, AppendGrows
<1>5. /\ InTurn' /\ pc'[p] = "labelled"
      /\ \A q \in Publishers : pc[q] = "labelled" => pc'[q] = "labelled"
  BY <1>1 DEF IInv, TypeOK, InTurn, Publishers, Busy
<1>6. AtRest(p)
  BY <1>1 DEF IInv, StartedTells
<1>7. /\ Counted' /\ Copied' /\ OfTurns' /\ offset' \in 0 .. Len(log')
      /\ AnswersAreLabelled' /\ AnswersAreClosed' /\ AnswerAfterOffset'
  BY <1>1, <1>2, <1>4, <1>5, <1>6, AppendKeeps
<1>8. TypeOK'
  <2>1. used' \in 0 .. Budget
    BY BoundsNat DEF IInv, TypeOK
  <2>. QED BY <1>4, <1>7, <2>1 DEF IInv, TypeOK, Counted, Grows, Pieces, client
<1>9. Answering(p)' /\ LastLabel(p)'
  BY <1>2, <1>4, AppendOwn
<1>10. StartedTells'
  BY <1>1, <1>2, <1>4, <1>9, AppendOthers DEF IInv, TypeOK, StartedTells, Busy
<1>11. Marking'
  BY <1>1, <1>9 DEF IInv, TypeOK, InTurn, Marking, Publishers, Busy
<1>. QED BY <1>5, <1>7, <1>8, <1>10, <1>11 DEF IInv

(* The offset is set behind the label, which is the last one and has no text  *)
(* behind it yet.                                                             *)
LEMMA MarkOffsetIInv ==
  ASSUME NEW p \in Publishers, IInv, MarkOffset(p)
  PROVE  IInv'
<1>. USE DEF MarkOffset, Goto, client
<1>1. TypeOK'
  BY DEF IInv, TypeOK, Counted
<1>2. Counted' /\ Copied' /\ OfTurns' /\ AnswersAreLabelled' /\ AnswersAreClosed'
  BY DEF IInv, Counted, Copied, Begins, OfTurns, AnswersAreLabelled, AnswersAreClosed
<1>3. InTurn'
  BY DEF IInv, TypeOK, InTurn, Publishers, Busy
<1>4. StartedTells' /\ Marking'
  BY SameLog DEF IInv, TypeOK, StartedTells, Marking, Busy
<1>5. AnswerAfterOffset'
  <2>1. PICK l \in 1 .. Len(log) :
        /\ log[l] = Piece(p, "label")
        /\ \A j \in l + 1 .. Len(log) : log[j].kind \notin {"label", "text"}
    BY DEF IInv, Marking, LastLabel
  <2>. SUFFICES ASSUME NEW i \in 1 .. Len(log), log[i].kind = "label",
                       \A j \in i + 1 .. Len(log) : log[j].kind # "label"
                PROVE  Len(log) >= i /\ \A j \in i + 1 .. Len(log) : log[j].kind # "text"
    BY DEF AnswerAfterOffset
  <2>2. Len(log) \in Nat /\ log[l].kind = "label"
    BY <2>1 DEF Piece, IInv, TypeOK
  <2>3. i = l
    BY <2>1, <2>2
  <2>. QED BY <2>1, <2>2, <2>3
<1>. QED BY <1>1, <1>2, <1>3, <1>4, <1>5 DEF IInv

(* An event of another role ends the answer first. *)
LEMMA PublishBreakIInv ==
  ASSUME NEW p \in Publishers, NEW role \in Roles(p), IInv, PublishBreak(p, role)
  PROVE  IInv'
<1>. USE DEF PublishBreak, Emits, Goto, AppendLog
<1>. DEFINE x == Piece(p, "nl")
<1>1. role \in {"user", "line", "bare"} /\ pc[p] \in {"opening", "ready"}
  BY DEF Roles
<1>2. x \in Pieces /\ x.by = p /\ x.kind = "nl"
  BY DEF Piece, Pieces, Kinds
<1>3. log' = Append(log, x)
  OBVIOUS
<1>. HIDE DEF x
<1>4. Grows(x)
  BY <1>2, <1>3, AppendGrows
<1>5. InTurn' /\ \A q \in Publishers : pc[q] = "labelled" => pc'[q] = "labelled"
  BY <1>1 DEF IInv, TypeOK, InTurn, Publishers, Busy
<1>6. /\ Counted' /\ Copied' /\ OfTurns' /\ offset' \in 0 .. Len(log')
      /\ AnswersAreLabelled' /\ AnswersAreClosed' /\ AnswerAfterOffset'
  BY <1>2, <1>4, <1>5, AppendKeeps
<1>7. TypeOK'
  <2>1. used' \in 0 .. Budget
    BY BoundsNat DEF IInv, TypeOK
  <2>. QED BY <1>1, <1>4, <1>6, <2>1 DEF IInv, TypeOK, Counted, Grows, Pieces, client
<1>8. StartedTells'
  <2>1. AtRest(p)'
    BY <1>2, <1>4, AppendOwn
  <2>. QED BY <1>1, <1>2, <1>4, <2>1, AppendOthers DEF IInv, TypeOK, StartedTells, Busy
<1>9. Marking'
  BY <1>1, <1>2, <1>4, AppendOwn DEF IInv, TypeOK, Marking
<1>. QED BY <1>5, <1>6, <1>7, <1>8, <1>9 DEF IInv

(* The event behind a label or a newline is of the same closure. *)
LEMMA PublishEventIInv ==
  ASSUME NEW p \in Publishers, IInv, PublishEvent(p)
  PROVE  IInv'
<1>. USE DEF PublishEvent, Goto
<1>. DEFINE x == Formatted(p, event[p])
<1>1. event[p] \in {"user", "assistant", "line", "bare"} /\ p \in Turns /\ running = p
  BY DEF IInv, TypeOK, InTurn, Publishers, Busy
<1>2. x \in Pieces /\ x.by = p /\ x.kind = IF event[p] = "assistant" THEN "text" ELSE event[p]
  BY <1>1 DEF Formatted, Piece, Pieces, Kinds
<1>. HIDE DEF x
<1>3. InTurn' /\ \A q \in Publishers : pc[q] = "labelled" => pc'[q] = "labelled"
  BY <1>1 DEF IInv, TypeOK, InTurn, Publishers, Busy
<1>4. IF event[p] = "assistant" THEN started[p] /\ Answering(p) ELSE ~started[p] /\ AtRest(p)
  BY DEF IInv, TypeOK, InTurn, StartedTells, Busy
<1>5. CASE log' = Append(log, x) /\ vers' = vers + 1
  <2>1. Grows(x)
    BY <1>2, <1>5, AppendGrows
  <2>2. /\ Counted' /\ Copied' /\ OfTurns' /\ offset' \in 0 .. Len(log')
        /\ AnswersAreLabelled' /\ AnswersAreClosed' /\ AnswerAfterOffset'
    BY <1>1, <1>2, <1>3, <1>4, <1>5, <2>1, AppendKeeps
  <2>3. TypeOK'
    BY <1>5, <2>1, <2>2 DEF IInv, TypeOK, Counted, Grows, Pieces, client
  <2>4. StartedTells'
    <3>1. IF event[p] = "assistant" THEN Answering(p)' ELSE AtRest(p)'
      BY <1>1, <1>2, <1>4, <2>1, AppendOwn
    <3>. QED BY <1>1, <1>2, <1>4, <2>1, <3>1, AppendOthers DEF IInv, TypeOK, StartedTells, Busy
  <2>5. Marking'
    BY <1>1 DEF IInv, TypeOK, Marking, InTurn, Busy, Publishers
  <2>. QED BY <1>3, <2>2, <2>3, <2>4, <2>5 DEF IInv
<1>6. CASE UNCHANGED <<log, vers>>
  <2>1. TypeOK'
    BY <1>6 DEF IInv, TypeOK, client
  <2>2. StartedTells' /\ Marking'
    BY <1>4, <1>6, SameLog DEF IInv, TypeOK, StartedTells, Marking, Busy
  <2>. QED BY <1>3, <1>6, <2>1, <2>2, QuietKeeps DEF IInv
<1>. QED BY <1>5, <1>6 DEF AppendEvent, AppendLog, x

(* The line a rename adds is of no publisher. *)
LEMMA RenameIInv ==
  ASSUME IInv, RenameCheck \/ RenameLog
  PROVE  IInv'
<1>. USE DEF publish
<1>1. CASE RenameCheck
  <2>1. TypeOK' /\ InTurn'
    BY <1>1 DEF RenameCheck, IInv, TypeOK, InTurn, Busy, client
  <2>2. StartedTells' /\ Marking'
    BY <1>1, SameLog DEF RenameCheck, IInv, StartedTells, Marking
  <2>. QED BY <1>1, <2>1, <2>2, QuietKeeps DEF RenameCheck, IInv
<1>2. CASE RenameLog
  <2>. DEFINE x == Piece(Nobody, "line")
  <2>1. x \in Pieces /\ x.by = Nobody /\ x.kind = "line"
    BY DEF Piece, Pieces, Kinds
  <2>2. log' = Append(log, x)
    BY <1>2 DEF RenameLog, AppendLog
  <2>. HIDE DEF x
  <2>3. Grows(x)
    BY <2>1, <2>2, AppendGrows
  <2>4. AtRest(Nobody)
    BY DEF IInv, OfTurns, AtRest, Publishers
  <2>5. /\ Counted' /\ Copied' /\ OfTurns' /\ offset' \in 0 .. Len(log')
        /\ AnswersAreLabelled' /\ AnswersAreClosed' /\ AnswerAfterOffset'
    BY <1>2, <2>1, <2>3, <2>4, AppendKeeps DEF RenameLog, AppendLog
  <2>6. TypeOK' /\ InTurn'
    BY <1>2, <2>3, <2>5 DEF RenameLog, AppendLog, IInv, TypeOK, InTurn, Busy, Counted, Grows,
        Pieces, client
  <2>7. StartedTells'
    BY <1>2, <2>1, <2>3, AppendOthers DEF RenameLog, IInv, StartedTells
  <2>8. Marking'
    BY <1>2, <2>1, <2>3, AppendOwn DEF RenameLog, IInv, Marking
  <2>. QED BY <2>5, <2>6, <2>7, <2>8 DEF IInv
<1>. QED BY <1>1, <1>2

(* What the clients do, and a step that changes nothing, leaves the log alone. *)
LEMMA SameButClient ==
  ASSUME IInv, UNCHANGED <<log, vers, offset, prev, publish, renaming>>,
         used' \in 0 .. Budget, reading' \in {"idle", "copied"}, statting' \in {"idle", "empty"},
         Counted', Copied'
  PROVE  IInv'
<1>. USE DEF publish
<1>1. TypeOK' /\ InTurn'
  BY DEF IInv, TypeOK, InTurn, Busy
<1>2. StartedTells' /\ Marking' /\ OfTurns'
  BY SameLog DEF IInv, StartedTells, Marking, OfTurns
<1>3. AnswersAreLabelled' /\ AnswersAreClosed' /\ AnswerAfterOffset'
  BY DEF IInv, AnswersAreLabelled, AnswersAreClosed, AnswerAfterOffset
<1>. QED BY <1>1, <1>2, <1>3 DEF IInv

(* A slice of a beginning of the log continues one that ends where it begins. *)
LEMMA SliceContinues ==
  ASSUME NEW s \in Seq(Pieces), NEW d \in Seq(Pieces), Begins(s), Begins(d), log \in Seq(Pieces)
  PROVE  Begins(s \o Slice(d, Len(s)))
<1>. DEFINE n == Len(s)
            m == IF n + Chunk > Len(d) THEN Len(d) ELSE n + Chunk
            t == SubSeq(d, n + 1, m)
<1>1. n \in Nat /\ Len(d) \in Nat /\ m \in Nat /\ m <= Len(d) /\ Len(log) \in Nat
  BY BoundsNat
<1>2. \A i \in n + 1 .. m : d[i] \in Pieces
  BY <1>1, ElementOfSeq
<1>3. /\ t \in Seq(Pieces) /\ Len(t) = IF n + 1 <= m THEN m - n ELSE 0
      /\ \A i \in 1 .. m - n : t[i] = d[n + i]
  <2>. HIDE DEF n, m
  <2>. QED BY <1>1, <1>2, SubSeqProperties
<1>. HIDE DEF t, m
<1>4. /\ s \o t \in Seq(Pieces) /\ Len(s \o t) = n + Len(t)
      /\ \A i \in 1 .. n + Len(t) : (s \o t)[i] = IF i <= n THEN s[i] ELSE t[i - n]
  BY <1>3, ConcatProperties
<1>. HIDE DEF n
<1>5. Len(s \o t) <= Len(log) /\ n <= Len(log)
  BY <1>1, <1>3, <1>4 DEF Begins, n
<1>6. \A i \in 1 .. n + Len(t) : (s \o t)[i] = log[i]
  BY <1>1, <1>3, <1>4 DEF Begins, n
<1>. QED BY <1>4, <1>5, <1>6 DEF Begins, Slice, t, m, n

(* A client reads chat in slices of copies of the log. *)
LEMMA ReadIInv ==
  ASSUME IInv, ReadCopy \/ ReadReply \/ ReadDrop
  PROVE  IInv'
<1>1. log \in Seq(Pieces) /\ log' = log /\ UNCHANGED <<vers, stat, statting>>
  BY DEF IInv, TypeOK, Pieces, ReadCopy, ReadReply, ReadDrop
<1>2. Counted'
  BY <1>1 DEF IInv, Counted
<1>3. Begins(log) /\ Begins(<<>>) /\ Begins(copy) /\ Begins(got)
  BY <1>1, EmptySeq DEF IInv, Copied, Begins
<1>4. \A q : Begins(q) => Begins(q)'
  BY <1>1 DEF Begins
<1>5. Copied'
  <2>1. CASE ReadCopy
    BY <1>1, <1>3, <2>1 DEF ReadCopy, Copied, Begins
  <2>2. CASE ReadReply
    <3>1. Begins(got \o Slice(copy, Len(got)))
      BY <1>1, <1>3, SliceContinues DEF Begins
    <3>. QED BY <1>1, <1>3, <2>2, <3>1 DEF ReadReply, Copied, Begins
  <2>3. CASE ReadDrop
    BY <1>1, <1>3, <2>3 DEF ReadDrop, Copied, Begins
  <2>. QED BY <2>1, <2>2, <2>3
<1>6. used' \in 0 .. Budget
  BY BoundsNat DEF IInv, TypeOK, ReadCopy, ReadReply, ReadDrop
<1>. QED BY <1>1, <1>2, <1>5, <1>6, SameButClient DEF ReadCopy, ReadReply, ReadDrop, IInv, TypeOK

(* A stat is taken in one step of a log with pieces, in two of an empty one.  *)
LEMMA StatIInv ==
  ASSUME IInv, StatInfo \/ StatSize
  PROVE  IInv'
<1>1. log \in Seq(Pieces) /\ Len(log) \in Nat /\ UNCHANGED <<log, vers, copy, got>>
  BY DEF IInv, TypeOK, Pieces, StatInfo, StatSize
<1>2. Counted'
  BY <1>1, EmptySeq DEF IInv, Counted, StatInfo, StatSize
<1>3. Copied'
  BY <1>1 DEF IInv, Copied, Begins
<1>4. used' \in 0 .. Budget /\ statting' \in {"idle", "empty"}
  BY BoundsNat DEF IInv, TypeOK, StatInfo, StatSize
<1>. QED BY <1>1, <1>2, <1>3, <1>4, SameButClient DEF StatInfo, StatSize, IInv, TypeOK

(* A step that changes nothing keeps everything.                              *)
LEMMA StutterIInv == ASSUME IInv, UNCHANGED vars PROVE IInv'
<1>1. Counted' /\ Copied'
  BY DEF vars, IInv, Counted, Copied, Begins
<1>. QED BY <1>1, SameButClient DEF vars, publish, IInv, TypeOK

(* Every step is one of the actions above. *)
LEMMA NextIInv == IInv /\ [Next]_vars => IInv'
<1>. SUFFICES ASSUME IInv, [Next]_vars PROVE IInv'
  OBVIOUS
<1>1. CASE \E p \in Publishers :
              WritePrompt(p) \/ Submit(p) \/ Return(p) \/ EnsureTrailingNewline(p)
  BY <1>1, TurnIInv, EnsureIInv
<1>2. CASE \E p \in Publishers : Publish(p)
  BY <1>2, PublishOnIInv, PublishLabelIInv, MarkOffsetIInv, PublishBreakIInv,
      PublishEventIInv DEF Publish
<1>3. CASE RenameCheck \/ RenameLog
  BY <1>3, RenameIInv
<1>4. CASE ReadCopy \/ ReadReply \/ ReadDrop
  BY <1>4, ReadIInv
<1>5. CASE StatInfo \/ StatSize
  BY <1>5, StatIInv
<1>6. CASE UNCHANGED vars
  BY <1>6, StutterIInv
<1>. QED BY <1>1, <1>2, <1>3, <1>4, <1>5, <1>6 DEF Next

------------------------------------------------------------------------------
(* The inductive invariant holds of every behaviour.                          *)
LEMMA Invariance == Spec => []IInv
<1>1. Init => IInv
  BY InitIInv
<1>2. IInv /\ [Next]_vars => IInv'
  BY NextIInv
<1>. QED BY <1>1, <1>2, PTL DEF Spec

(* A client that reads chat in slices sees a beginning of the conversation,   *)
(* whatever is appended between and during its reads (server.go 966-990,      *)
(* sessionfile.go 89-96).                                                     *)
THEOREM ReadsAreBeginnings == Spec => []GotIsPrefix
<1>1. ASSUME IInv PROVE GotIsPrefix
  <2>1. got \in Seq(Pieces) /\ log \in Seq(Pieces) /\ Len(got) \in Nat /\ Len(log) \in Nat
        /\ Len(got) <= Len(log) /\ \A i \in 1 .. Len(got) : got[i] = log[i]
    BY <1>1 DEF IInv, TypeOK, Copied, Begins, Pieces
  <2>2. \A i \in 1 .. Len(got) : got[i] \in Pieces /\ log[i] \in Pieces
    BY <2>1
  <2>3. /\ SubSeq(log, 1, Len(got)) \in Seq(Pieces) /\ Len(SubSeq(log, 1, Len(got))) = Len(got)
        /\ \A i \in 1 .. Len(got) : SubSeq(log, 1, Len(got))[i] = log[i]
    BY <2>1, <2>2, SubSeqProperties
  <2>4. /\ SubSeq(got, 1, Len(got)) \in Seq(Pieces) /\ Len(SubSeq(got, 1, Len(got))) = Len(got)
        /\ \A i \in 1 .. Len(got) : SubSeq(got, 1, Len(got))[i] = got[i]
    BY <2>1, <2>2, SubSeqProperties
  <2>5. SubSeq(got, 1, Len(got)) = SubSeq(log, 1, Len(got))
    BY <2>1, <2>3, <2>4, SeqEqual
  <2>. QED BY <2>1, <2>5 DEF GotIsPrefix, IsPrefix
<1>. QED BY <1>1, Invariance, PTL

(* A version that is current comes with the current length, although an empty *)
(* log is asked twice (server.go makeStat, session.go LogInfo).               *)
THEOREM VersionTellsLength == Spec => []StatTellsChange
<1>1. IInv => StatTellsChange
  BY DEF IInv, TypeOK, Counted, StatTellsChange
<1>. QED BY <1>1, Invariance, PTL

(* What offset leads to is all of the latest segment of an answer, the text   *)
(* since the last label, whatever commands, renames and turns that have       *)
(* returned append beside it (sessionfile.go 343-372).                        *)
THEOREM OffsetFindsAnswer == Spec => []AnswerAfterOffset
<1>1. IInv => AnswerAfterOffset
  BY DEF IInv
<1>. QED BY <1>1, Invariance, PTL

(* The answers of a turn are labelled and end with a newline, in a log that   *)
(* keeps its type (sessionfile.go 343-372).                                   *)
THEOREM AnswersWhole == Spec => []AnswersAreWhole
<1>1. IInv => AnswersAreWhole
  BY DEF IInv, AnswersAreWhole
<1>. QED BY <1>1, Invariance, PTL

==============================================================================
