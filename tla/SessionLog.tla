------------------------------ MODULE SessionLog ------------------------------
(* The conversation of one session: Session.log with its version and          *)
(* ChatOffset.  Every prompt and every ctl command publishes the events of    *)
(* the agent through a closure of its own (makePublish, sessionfile.go        *)
(* 343-372), a rename adds a line (session.go 432), and clients read chat in  *)
(* pieces and poll its stat.  Each append is one critical section of sess.mu, *)
(* a whole event up to three of them, so publishers interleave.               *)
EXTENDS Naturals, Sequences, SequencesExt

CONSTANTS Turns,      \* prompts written by clients: each runs one turn
          Commands,   \* ctl and cfg commands that publish (/usage, /model ...)
          Nobody,     \* no publisher
          TurnRoles,  \* the roles of the events a turn publishes
          ReplyRoles, \* the roles of the events a command publishes
          Budget,     \* bound on the events, reads and stats of a behaviour
          Chunk       \* count of a Tread, in pieces of the log

Publishers == Turns \union Commands

ASSUME PublishersDistinct == Turns \intersect Commands = {} /\ Nobody \notin Publishers
ASSUME RolesKnown ==
    /\ {"user", "assistant"} \subseteq TurnRoles
    /\ TurnRoles \subseteq {"user", "assistant", "line", "bare"}
    /\ ReplyRoles \subseteq {"line", "bare"}
ASSUME BoundsNat == Chunk \in Nat \ {0} /\ Budget \in Nat

VARIABLES
    log,      \* Session.log: the pieces appended, with who appended them
    vers,     \* logVers
    offset,   \* ChatOffset
    prev,     \* prevPrompt
    running,  \* the turn the core runs, or Nobody
    pc,       \* where each publisher is
    started,  \* assistantStarted of each publisher's closure
    event,    \* the role of the event being published
    renaming, \* "no", "checked" (IsRunning was false) or "done"
    copy,     \* the copy of the log a read of chat works on
    reading,  \* "idle" or "copied"
    got,      \* what the client following chat has read
    stat,     \* length and version of its last stat
    statting, \* "idle" or "empty" (LogInfo said 0)
    used      \* what of the budget is used

publish == <<running, pc, started, event>>
client == <<copy, reading, got, stat, statting>>
vars == <<log, vers, offset, prev, running, pc, started, event, renaming,
          copy, reading, got, stat, statting, used>>

\* FormatEvent: a "line" is an event whose text ends in a newline (call, tool,
\* error, retry, stalled, and info that brings its own), a "bare" one does not
\* (reasoning, info).
Kinds == {"user", "label", "text", "line", "bare", "nl"}
Roles(p) == IF p \in Turns THEN TurnRoles ELSE ReplyRoles
EndsLine(piece) == piece.kind \in {"user", "line", "nl"}
Piece(p, kind) == [by |-> p, kind |-> kind]
Formatted(p, role) == Piece(p, IF role = "assistant" THEN "text" ELSE role)

Init ==
    /\ log = <<>> /\ vers = 0 /\ offset = 0 /\ prev = Nobody
    /\ running = Nobody
    /\ pc = [p \in Publishers |-> IF p \in Turns THEN "new" ELSE "ready"]
    /\ started = [p \in Publishers |-> FALSE]
    /\ event = [p \in Publishers |-> "none"]
    /\ renaming = "no"
    /\ copy = <<>> /\ reading = "idle" /\ got = <<>>
    /\ stat = [len |-> 0, vers |-> 0] /\ statting = "idle" /\ used = 0

AppendLog(piece) == log' = Append(log, piece) /\ vers' = vers + 1

\* A text or an info may be empty; appending nothing does nothing.
AppendEvent(p, role) ==
    \/ AppendLog(Formatted(p, role))
    \/ role \in {"assistant", "bare"} /\ UNCHANGED <<log, vers>>

Goto(p, label) == pc' = [pc EXCEPT ![p] = label]

-----------------------------------------------------------------------------
(* Submitting *)

\* A prompt is remembered, then submitted by a goroutine of its own.
WritePrompt(p) ==
    /\ p \in Turns /\ pc[p] = "new"
    /\ prev' = p
    /\ Goto(p, "spawned")
    /\ UNCHANGED <<log, vers, offset, running, started, event, renaming, client, used>>

\* The core runs one turn at a time.
Submit(p) ==
    /\ pc[p] = "spawned" /\ running = Nobody
    /\ running' = p
    /\ Goto(p, "opening")
    /\ UNCHANGED <<log, vers, offset, prev, started, event, renaming, client, used>>

\* Submit returns; the goroutine goes on to EnsureTrailingNewline.
Return(p) ==
    /\ p \in Turns /\ pc[p] = "ready"
    /\ running' = Nobody
    /\ Goto(p, "returned")
    /\ UNCHANGED <<log, vers, offset, prev, started, event, renaming, client, used>>

\* Mutant: the newline is added without a new version.
EnsureWithoutVersion(p) ==
    /\ pc[p] = "returned"
    /\ IF log # <<>> /\ ~EndsLine(Last(log))
          THEN log' = Append(log, Piece(p, "nl")) /\ UNCHANGED vers
          ELSE UNCHANGED <<log, vers>>
    /\ Goto(p, "done")
    /\ UNCHANGED <<offset, prev, running, started, event, renaming, client, used>>

EnsureTrailingNewline(p) ==
    /\ pc[p] = "returned"
    /\ IF log # <<>> /\ ~EndsLine(Last(log)) THEN AppendLog(Piece(p, "nl"))
                                             ELSE UNCHANGED <<log, vers>>
    /\ Goto(p, "done")
    /\ UNCHANGED <<offset, prev, running, started, event, renaming, client, used>>

-----------------------------------------------------------------------------
(* Publishing.  A turn opens with the prompt as a user event; a command's      *)
(* Submit changes nothing here but by what it publishes, at any time.          *)

Emits(p, role) ==
    /\ \/ pc[p] = "opening" /\ role = "user"
       \/ pc[p] = "ready" /\ role \in Roles(p)
    /\ used < Budget /\ used' = used + 1
    /\ UNCHANGED <<offset, prev, running, renaming, client>>

\* An event that continues what the closure last wrote is one append.
PublishOn(p, role) ==
    /\ Emits(p, role)
    /\ started[p] <=> role = "assistant"
    /\ AppendEvent(p, role)
    /\ Goto(p, "ready")
    /\ UNCHANGED <<started, event>>

\* The first piece of an answer: the label, the offset, the text.
PublishLabel(p) ==
    /\ Emits(p, "assistant")
    /\ ~started[p]
    /\ AppendLog(Piece(p, "label"))
    /\ event' = [event EXCEPT ![p] = "assistant"]
    /\ Goto(p, "labelled")
    /\ UNCHANGED started

\* Mutant: the offset is set for the first answer only.
MarkOnce(p) ==
    /\ pc[p] = "labelled"
    /\ offset' = IF offset = 0 THEN Len(log) ELSE offset
    /\ started' = [started EXCEPT ![p] = TRUE]
    /\ Goto(p, "event")
    /\ UNCHANGED <<log, vers, prev, running, event, renaming, client, used>>

MarkOffset(p) ==
    /\ pc[p] = "labelled"
    /\ offset' = Len(log)
    /\ started' = [started EXCEPT ![p] = TRUE]
    /\ Goto(p, "event")
    /\ UNCHANGED <<log, vers, prev, running, event, renaming, client, used>>

\* Mutant: the newline is left out.
NoBreak(p, role) ==
    /\ Emits(p, role)
    /\ started[p] /\ role # "assistant"
    /\ AppendLog(Formatted(p, role))
    /\ started' = [started EXCEPT ![p] = FALSE]
    /\ Goto(p, "ready")
    /\ UNCHANGED event

\* An event of another role ends the answer with a newline first.
PublishBreak(p, role) ==
    /\ Emits(p, role)
    /\ started[p] /\ role # "assistant"
    /\ AppendLog(Piece(p, "nl"))
    /\ started' = [started EXCEPT ![p] = FALSE]
    /\ event' = [event EXCEPT ![p] = role]
    /\ Goto(p, "event")

PublishEvent(p) ==
    /\ pc[p] = "event"
    /\ AppendEvent(p, event[p])
    /\ event' = [event EXCEPT ![p] = "none"]
    /\ Goto(p, "ready")
    /\ UNCHANGED <<offset, prev, running, started, renaming, client, used>>

Publish(p) ==
    \/ PublishLabel(p) \/ MarkOffset(p) \/ PublishEvent(p)
    \/ \E role \in Roles(p) : PublishOn(p, role) \/ PublishBreak(p, role)

\* A rename checks that no turn runs and writes its line later, under another
\* lock.
RenameCheck ==
    /\ renaming = "no" /\ running = Nobody
    /\ renaming' = "checked"
    /\ UNCHANGED <<log, vers, offset, prev, publish, client, used>>

RenameLog ==
    /\ renaming = "checked"
    /\ AppendLog(Piece(Nobody, "line"))
    /\ renaming' = "done"
    /\ UNCHANGED <<offset, prev, publish, client, used>>

-----------------------------------------------------------------------------
(* A client that follows chat: reads at the offset it reached, and stats *)

ReadCopy ==
    /\ reading = "idle" /\ used < Budget /\ used' = used + 1
    /\ copy' = log
    /\ reading' = "copied"
    /\ UNCHANGED <<log, vers, offset, prev, publish, renaming, got, stat, statting>>

\* Mutant: off by one at the start.
SliceSkips(data, off) == SubSeq(data, off + 2, IF off + Chunk > Len(data) THEN Len(data) ELSE off + Chunk)

\* readSlice: from the fid's offset, at most the count.
Slice(data, off) == SubSeq(data, off + 1, IF off + Chunk > Len(data) THEN Len(data) ELSE off + Chunk)

ReadReply ==
    /\ reading = "copied"
    /\ got' = got \o Slice(copy, Len(got))
    /\ reading' = "idle" /\ copy' = <<>>
    /\ UNCHANGED <<log, vers, offset, prev, publish, renaming, stat, statting, used>>

\* The read is flushed or times out: its copy is dropped.
ReadDrop ==
    /\ reading = "copied"
    /\ reading' = "idle" /\ copy' = <<>>
    /\ UNCHANGED <<log, vers, offset, prev, publish, renaming, got, stat, statting, used>>

\* makeStat asks LogInfo; when that says 0 it asks again, for the size only.
StatInfo ==
    /\ statting = "idle" /\ used < Budget /\ used' = used + 1
    /\ stat' = [len |-> Len(log), vers |-> vers]
    /\ statting' = IF log = <<>> THEN "empty" ELSE "idle"
    /\ UNCHANGED <<log, vers, offset, prev, publish, renaming, copy, reading, got>>

StatSize ==
    /\ statting = "empty"
    /\ stat' = [stat EXCEPT !.len = Len(log)]
    /\ statting' = "idle"
    /\ UNCHANGED <<log, vers, offset, prev, publish, renaming, copy, reading, got, used>>

Next ==
    \/ \E p \in Publishers :
        WritePrompt(p) \/ Submit(p) \/ Publish(p) \/ Return(p) \/ EnsureTrailingNewline(p)
    \/ RenameCheck \/ RenameLog
    \/ ReadCopy \/ ReadReply \/ ReadDrop
    \/ StatInfo \/ StatSize

Spec == Init /\ [][Next]_vars

-----------------------------------------------------------------------------
TypeOK ==
    /\ log \in Seq([by : Publishers \union {Nobody}, kind : Kinds])
    /\ vers \in Nat /\ offset \in 0..Len(log)
    /\ prev \in Turns \union {Nobody} /\ running \in Turns \union {Nobody}
    /\ pc \in [Publishers -> {"new", "spawned", "opening", "ready", "labelled", "event", "returned", "done"}]
    /\ started \in [Publishers -> BOOLEAN]
    /\ event \in [Publishers -> {"none", "user", "assistant", "line", "bare"}]
    /\ used \in 0..Budget
    /\ renaming \in {"no", "checked", "done"}
    /\ reading \in {"idle", "copied"} /\ statting \in {"idle", "empty"}

\* What a client following chat with chunked reads has seen is, at every moment,
\* a beginning of the conversation, whatever was appended between its reads.
GotIsPrefix == IsPrefix(got, log)

\* A client that polls the stat of chat misses nothing: when the version it
\* holds is the current one so is the length, although an empty log is stat'ed
\* in two steps.
StatTellsChange == statting = "idle" /\ stat.vers = vers => stat.len = Len(log)

\* A client that reads chat from offset on gets all of the latest segment of an
\* answer: once the offset is set it lies behind that segment's label and before
\* its text, whatever other publishers wrote in between.  A segment ends at any
\* other event of its turn, so with every tool call followed by more text the
\* offset moves on, away from the prompt; and it never is "immediately after the
\* last user prompt" (README.md 58), since the label lies between.
AnswerAfterOffset ==
    \A i \in 1..Len(log) :
        /\ log[i].kind = "label"
        /\ pc[log[i].by] # "labelled"
        /\ \A j \in i+1..Len(log) : log[j].kind # "label"
        => offset >= i /\ \A j \in i+1..offset : log[j].kind # "text"

\* Among the pieces of one publisher, a text continues an answer that was
\* labelled: looking back, only text lies between it and its label.
AnswersAreLabelled ==
    \A i \in 1..Len(log) : log[i].kind = "text" =>
        \E j \in 1..i-1 :
            /\ log[j] = Piece(log[i].by, "label")
            /\ \A k \in j+1..i-1 : log[k].by = log[i].by => log[k].kind = "text"

\* Among the pieces of one publisher, an answer is left only by a newline: no
\* user line or tool call is glued to the text before it.
AnswersAreClosed ==
    \A i, j \in 1..Len(log) :
        /\ i < j /\ log[i].by = log[j].by
        /\ log[i].kind \in {"label", "text"}
        /\ \A k \in i+1..j-1 : log[k].by # log[i].by
        => log[j].kind \in {"text", "nl"}

\* Together: the pieces of one publisher read as labelled answers that end with
\* a newline, in a log that keeps its type (sessionfile.go 343-372).
AnswersAreWhole == TypeOK /\ AnswersAreLabelled /\ AnswersAreClosed
=============================================================================
