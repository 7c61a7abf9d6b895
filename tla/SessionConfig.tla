----------------------------- MODULE SessionConfig -----------------------------
(* Writes to the cfg file of a session (handleCfg, sessionfile.go 273-340).     *)
(* A write reads the generation parameters, goes through its lines, which may   *)
(* change its copy of them or call the core at once (backend, model, agent and  *)
(* cwd), stops at the first error, and puts the copy back at the end if a line  *)
(* named a parameter.  No lock is held from the read to the write, so writes of *)
(* several clients, and the turns of the agent, interleave.  What StateWait     *)
(* has, too, is called otherwise here, so that one module can have both proofs. *)
EXTENDS Naturals

CONSTANTS Writers,   \* handlers of cfg writes
          Keys,      \* generation parameters: maxTokens, temperature ...
          Values,    \* what they can be set to
          NotSet,    \* their default: the empty string of a line, 0 or nil
          Nobody,    \* no writer
          MaxTurns   \* bound on the turns

ASSUME NotSetIsNoValue == NotSet \notin Values /\ Nobody \notin Writers
ASSUME MaxTurnsNat == MaxTurns \in Nat

VARIABLES
    params,    \* Core.GenerationParams()
    model, cwd, \* who last changed the backend, model or agent, and the directory
    running,   \* Core.IsRunning()
    turns,     \* the turns so far
    stage,     \* "new", "lines", "submit", "set", "ok" or "failed"
    p,         \* the writer's copy of the parameters
    hasParams, \* a line named a parameter
    named,     \* history: the parameters its lines set
    since,     \* history: parameters others set since it took its copy
    last,      \* history: what the last accepted write that set it wanted
    accepted,  \* history: what accepted writes gave each parameter
    overtaken  \* history: parameters put back by a write that overlapped another

core == <<params, model, cwd>>
agent == <<running, turns>>
write == <<stage, p, hasParams, named>>
history == <<last, accepted, overtaken>>
configVars == <<params, model, cwd, running, turns, stage, p, hasParams, named, since, last,
                accepted, overtaken>>

Defaults == [k \in Keys |-> NotSet]

ConfigInit ==
    /\ params = Defaults /\ model = Nobody /\ cwd = Nobody
    /\ running = FALSE /\ turns = 0
    /\ stage = [w \in Writers |-> "new"]
    /\ p = [w \in Writers |-> Defaults]
    /\ hasParams = [w \in Writers |-> FALSE]
    /\ named = [w \in Writers |-> {}] /\ since = [w \in Writers |-> {}]
    /\ last = Defaults /\ accepted = [k \in Keys |-> {NotSet}] /\ overtaken = {}

Goto(w, label) == stage' = [stage EXCEPT ![w] = label]

(* What a write knows ends with it. *)
Return(w, label) ==
    /\ Goto(w, label)
    /\ p' = [p EXCEPT ![w] = Defaults]
    /\ hasParams' = [hasParams EXCEPT ![w] = FALSE]
    /\ named' = [named EXCEPT ![w] = {}]

BeginWith(w, copy) ==
    /\ stage[w] = "new"
    /\ p' = [p EXCEPT ![w] = copy]
    /\ Goto(w, "lines")
    /\ UNCHANGED <<core, agent, hasParams, named, since, history>>

\* Mutant: the write starts from the defaults, not from what is set.
BeginEmpty(w) == BeginWith(w, Defaults)

Begin(w) == BeginWith(w, params)

-----------------------------------------------------------------------------
(* One line.  Lines without "=" and keys nobody knows are passed over.        *)

AssignLine(w, k, v) ==
    /\ stage[w] = "lines"
    /\ p' = [p EXCEPT ![w][k] = v]
    /\ hasParams' = [hasParams EXCEPT ![w] = TRUE]
    /\ named' = [named EXCEPT ![w] = @ \union {k}]

\* Mutant: a parameter is set as soon as its line is read.
ParamLineSets(w, k, v) ==
    /\ AssignLine(w, k, v)
    /\ params' = [params EXCEPT ![k] = v]
    /\ UNCHANGED <<model, cwd, agent, stage, since, history>>

ParamLine(w, k, v) ==
    /\ AssignLine(w, k, v)
    /\ UNCHANGED <<core, agent, stage, since, history>>

\* Mutant: what cannot be parsed is stored.
UnparsedStored(w, k) ==
    /\ AssignLine(w, k, "unparsed")
    /\ UNCHANGED <<core, agent, stage, since, history>>

\* A value that is no number is ignored, without an error.
UnparsedLine(w, k) ==
    /\ stage[w] = "lines"
    /\ hasParams' = [hasParams EXCEPT ![w] = TRUE]
    /\ UNCHANGED <<core, agent, stage, p, named, since, history>>

\* IsRunning, then either the error or what the write was about to do.  No lock
\* spans the two, so a turn may start in between: TurnStart is enabled in "submit"
\* and "set", and the change is then made during the turn.
Check(w, goOn) ==
    /\ IF running THEN Return(w, "failed")
       ELSE Goto(w, goOn) /\ UNCHANGED <<p, hasParams, named>>
    /\ UNCHANGED <<core, agent, since, history>>

\* backend, model, agent: the command is submitted if no turn is under way.
SwitchLine(w) == stage[w] = "lines" /\ Check(w, "submit")

SubmitSwitch(w) ==
    /\ stage[w] = "submit"
    /\ model' = w
    /\ Goto(w, "lines")
    /\ UNCHANGED <<params, cwd, agent, p, hasParams, named, since, history>>

\* A directory is changed at once, during a turn as well: nothing asks IsRunning.
CwdLine(w) ==
    /\ stage[w] = "lines"
    /\ cwd' = w
    /\ UNCHANGED <<params, model, agent, write, since, history>>

\* No such directory, or the parameters are refused: the write ends.
Fail(w) ==
    /\ stage[w] \in {"lines", "set"}
    /\ Return(w, "failed")
    /\ UNCHANGED <<core, agent, since, history>>

-----------------------------------------------------------------------------
(* The end of the write. *)

EndParams(w) == stage[w] = "lines" /\ hasParams[w] /\ Check(w, "set")

EndPlain(w) ==
    /\ stage[w] = "lines" /\ ~hasParams[w]
    /\ Return(w, "ok")
    /\ UNCHANGED <<core, agent, since, history>>

SetParams(w) ==
    /\ stage[w] = "set"
    /\ params' = p[w]
    /\ last' = [k \in Keys |-> IF k \in named[w] THEN p[w][k] ELSE last[k]]
    /\ accepted' = [k \in Keys |-> IF k \in named[w] THEN accepted[k] \union {p[w][k]} ELSE accepted[k]]
    /\ overtaken' = (overtaken \union since[w]) \ named[w]
    /\ since' = [o \in Writers |-> IF stage[o] \in {"lines", "submit", "set"} /\ o # w
                                    THEN since[o] \union named[w] ELSE {}]
    /\ Return(w, "ok")
    /\ UNCHANGED <<model, cwd, agent>>

-----------------------------------------------------------------------------
TurnStart ==
    /\ ~running /\ turns < MaxTurns
    /\ running' = TRUE
    /\ turns' = turns + 1
    /\ UNCHANGED <<core, write, since, history>>

TurnEnd ==
    /\ running
    /\ running' = FALSE
    /\ UNCHANGED <<core, turns, write, since, history>>

Line(w) ==
    \/ \E k \in Keys : UnparsedLine(w, k) \/ \E v \in Values \union {NotSet} : ParamLine(w, k, v)
    \/ SwitchLine(w) \/ SubmitSwitch(w) \/ CwdLine(w) \/ Fail(w)

ConfigNext ==
    \/ \E w \in Writers : Begin(w) \/ Line(w) \/ EndParams(w) \/ EndPlain(w) \/ SetParams(w)
    \/ TurnStart \/ TurnEnd

ConfigSpec == ConfigInit /\ [][ConfigNext]_configVars

-----------------------------------------------------------------------------
Params == [Keys -> Values \union {NotSet}]

ConfigTypeOK ==
    /\ params \in Params /\ last \in Params
    /\ model \in Writers \union {Nobody} /\ cwd \in Writers \union {Nobody}
    /\ running \in BOOLEAN /\ turns \in 0..MaxTurns
    /\ stage \in [Writers -> {"new", "lines", "submit", "set", "ok", "failed"}]
    /\ p \in [Writers -> Params]
    /\ hasParams \in [Writers -> BOOLEAN]
    /\ named \in [Writers -> SUBSET Keys] /\ since \in [Writers -> SUBSET Keys]
    /\ accepted \in [Keys -> SUBSET (Values \union {NotSet})]
    /\ overtaken \subseteq Keys

\* A rejected write leaves no trace in the parameters, whichever of its lines
\* was the wrong one and whatever it overlapped with (a switch of the model or
\* the directory it made before the error stays made).  A rejected value some
\* accepted write once gave shows here no more: LostOnlyToOverlap sees that one.
ParamsFromAccepted == \A k \in Keys : params[k] \in accepted[k]

\* A partial write changes the parameters it names and no other, except where
\* it overlapped another write: those the other set meanwhile it puts back.
LostOnlyToOverlap == \A k \in Keys \ overtaken : params[k] = last[k]
===============================================================================
