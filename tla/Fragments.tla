----------------------------- MODULE Fragments -----------------------------
(***************************************************************************)
(* How the variables and the shell configuration of the spec reach a       *)
(* shell: `genv apply` renders them into fragment files of its own and has *)
(* the user's start-up files source those (applyEnvVars and applyShellCfg  *)
(* of main.go; internal/env, internal/shellcfg, internal/profilebackend).  *)
(*                                                                         *)
(* A start-up file is a sequence of lines, of which only what genv can     *)
(* tell apart matters: a line of the user's, a marker, a line that sources *)
(* a fragment.  Between two steps of an apply the user may edit any of     *)
(* them, and the apply may be killed.                                      *)
(***************************************************************************)
EXTENDS Naturals, Sequences, FiniteSets, SequencesExt

CONSTANTS
  Documents,    \* the specs the user may write: [env, shell]
  Hosts,        \* the hosts a run may come to be on
  FirstHosts,   \* the hosts a run may start on
  FirstSpecs,   \* the specs a run may start from
  FirstRcs,     \* what the start-up files may hold at first
  NoShell,      \* the spec, or the lock, has no shell block
  Absent,       \* the file does not exist
  MaxRuns,      \* applies, bound
  MaxFaults,    \* failed calls and interruptions, bound
  MaxEdits      \* changes by the user, bound

VARIABLES
  spec,       \* the materialised env and shell blocks
  host,       \* [windows, engine, shell, custom]: what the process finds itself on
  lock,       \* the env and shell sections of the lock
  fragment,   \* fragment[f]: what fragment file f defines, or Absent
  rc,         \* rc[r]: the lines of start-up file r, or Absent
  run,        \* the apply being executed
  \* History: nothing has changed since an apply went through without a
  \* warning; and some fragment may be left from an apply the lock knows
  \* nothing of, or from a host that had other shells.
  fresh, forgotten,
  runs, faults, edits

vars == <<spec, host, lock, fragment, rc, run, fresh, forgotten, runs, faults, edits>>

-----------------------------------------------------------------------------
(* What may be declared.  A variable is <<name, value>>; an alias, function*)
(* or source entry is <<name, value, shell>> with the shell it is for.     *)

Kinds == {"any", "bash", "zsh", "powershell", "source"}

Entries(shell) == IF shell = NoShell THEN {} ELSE shell

\* The two-way comparison with the lock, by name.
Diff(declared, locked) ==
  LET names == {e[1] : e \in declared \cup locked}
      Of(S, n) == {e \in S : e[1] = n}
  IN  [n \in names |->
        IF Of(locked, n) = {} THEN "missing"
        ELSE IF Of(declared, n) = {} THEN "extra"
        ELSE IF Of(declared, n) = Of(locked, n) THEN "ok" ELSE "modified"]

EnvStatus(doc, lf)   == Diff(doc.env, lf.env)
ShellStatus(doc, lf) == Diff(Entries(doc.shell), Entries(lf.shell))

Changed(status) == \E n \in DOMAIN status : status[n] # "ok"

-----------------------------------------------------------------------------
(* The backends and their files.                                           *)

Backends  == {"posix", "powershell"}
Parts     == {"env", "shell"}
PosixRcs  == {"bashrc", "zshrc"}
Profiles  == {"pwsh profile", "windows profile"}
Rcs       == PosixRcs \cup Profiles

FileOf == [posix |-> [env |-> "env.sh", shell |-> "shell.sh"],
           powershell |-> [env |-> "env.ps1", shell |-> "shell.ps1"]]
FragmentFiles == {FileOf[b][p] : b \in Backends, p \in Parts}

\* A POSIX shell is in play: $SHELL names one, or a start-up file is there.
PosixRelevant == host.shell # "none" \/ \E r \in PosixRcs : rc[r] # Absent

\* On windows PowerShell goes first, if there is an engine.
SelectBackends ==
  IF ~host.windows THEN <<"posix">>
  ELSE (IF host.engine # "none" THEN <<"powershell">> ELSE <<>>)
       \o (IF PosixRelevant THEN <<"posix">> ELSE <<>>)

PosixRc     == IF host.shell = "zsh" THEN "zshrc" ELSE "bashrc"
ProfilePath == IF host.engine = "pwsh" THEN "pwsh profile" ELSE "windows profile"
RcOf(b)     == IF b = "posix" THEN PosixRc ELSE ProfilePath

\* Each fragment holds what is for its shells.
EnvSh(doc)    == doc.env
EnvPs1(doc)   == doc.env
ShellSh(doc)  == {e \in Entries(doc.shell) : e[3] # "powershell"}
ShellPs1(doc) == {e \in Entries(doc.shell) : e[3] \in {"powershell", "source"}}

Content(b, part, doc) ==
  IF b = "posix" THEN IF part = "env" THEN EnvSh(doc) ELSE ShellSh(doc)
  ELSE IF part = "env" THEN EnvPs1(doc) ELSE ShellPs1(doc)

\* A fragment without content is removed.
Rendered(b, part, doc) ==
  IF Content(b, part, doc) = {} THEN Absent ELSE Content(b, part, doc)

\* A start-up file sources what there is to source, if the fragments are in the
\* default directory.
ShouldInject == ~host.custom
NeedsLine(b, part, doc) == Content(b, part, doc) # {} /\ ShouldInject

-----------------------------------------------------------------------------
(* The lines of a start-up file.                                           *)

User(i)         == <<"user", i, "">>
Marker          == <<"marker", "", "">>
Begin(part)     == <<"begin", part, "">>
End(part)       == <<"end", part, "">>
Source(f, form) == <<"source", f, form>>   \* form: "here", or "elsewhere": another host's path

Line == {User("1"), User("2"), Marker} \cup {Begin(p) : p \in Parts} \cup {End(p) : p \in Parts}
          \cup {Source(f, form) : f \in FragmentFiles, form \in {"here", "elsewhere"}}

Lines(content) == IF content = Absent THEN <<>> ELSE content
FirstOf(s, line, after) ==
  LET at == {i \in after + 1..Len(s) : s[i] = line}
  IN  IF at = {} THEN 0 ELSE CHOOSE i \in at : \A j \in at : i <= j
Managed(line) == line[1] = "source" /\ line[2] \in {"env.sh", "shell.sh"}

\* Where the run of managed lines under the marker at line m ends.
BlockEnd(s, m) ==
  CHOOSE e \in m..Len(s) : /\ \A i \in m + 1..e : Managed(s[i])
                           /\ e = Len(s) \/ ~Managed(s[e + 1])

\* Mutant: a block is recognised by this host's path (#217).
ReplaceOrAppendByPath(s, f) ==
  IF Contains(s, Source(f, "here")) THEN s ELSE s \o <<Marker, Source(f, "here")>>

\* Mutant: only the line of the fragment that is being injected is known (#226).
ReplaceOrAppendAlone(s, f) ==
  LET m == FirstOf(s, Marker, 0)
      e == IF m < Len(s) /\ s[m + 1][1] = "source" /\ s[m + 1][2] = f THEN m + 1 ELSE m
  IN  IF m = 0 THEN s \o <<Marker, Source(f, "here")>>
      ELSE SubSeq(s, 1, m) \o <<Source(f, "here")>> \o SubSeq(s, e + 1, Len(s))

\* Mutant: the line just injected goes last, whatever it sources.
ReplaceOrAppendLast(s, f) ==
  LET m == FirstOf(s, Marker, 0)
      e == BlockEnd(s, m)
      kept == SelectSeq(SubSeq(s, m + 1, e), LAMBDA l : l[2] # f)
  IN  IF m = 0 THEN s \o <<Marker, Source(f, "here")>>
      ELSE SubSeq(s, 1, m) \o kept \o <<Source(f, "here")>> \o SubSeq(s, e + 1, Len(s))

\* Mutant: the block reaches to the end of the file.
ReplaceOrAppendToEnd(s, f) ==
  LET m == FirstOf(s, Marker, 0)
      kept == SelectSeq(SubSeq(s, m + 1, Len(s)), LAMBDA l : Managed(l) /\ l[2] # f)
  IN  IF m = 0 THEN s \o <<Marker, Source(f, "here")>>
      ELSE SubSeq(s, 1, m) \o IF f = "env.sh" THEN <<Source(f, "here")>> \o kept
                              ELSE kept \o <<Source(f, "here")>>

\* The first block is rewritten: the last line for each fragment, the new one
\* for f, env.sh first.
ReplaceOrAppend(s, f) ==
  LET m == FirstOf(s, Marker, 0)
      e == BlockEnd(s, m)
      Newest(n) == CHOOSE i \in m + 1..e : s[i][2] = n /\ \A j \in i + 1..e : s[j][2] # n
      Kept(n) == IF n = f THEN <<Source(f, "here")>>
                 ELSE IF \E i \in m + 1..e : s[i][2] = n THEN <<s[Newest(n)]>> ELSE <<>>
  IN  IF m = 0 THEN s \o <<Marker, Source(f, "here")>>
      ELSE SubSeq(s, 1, m) \o Kept("env.sh") \o Kept("shell.sh") \o SubSeq(s, e + 1, Len(s))

\* The lines between the first begin and the end that follows it are replaced.
ReplaceBetween(s, part, body) ==
  LET b == FirstOf(s, Begin(part), 0)
      e == FirstOf(s, End(part), b)
  IN  IF b = 0 \/ e = 0 THEN s ELSE SubSeq(s, 1, b) \o <<body>> \o SubSeq(s, e, Len(s))

\* PowerShell has a block per fragment; a begin without an end is left alone.
InjectProfileLine(s, part) ==
  LET dot == Source(FileOf["powershell"][part], "here")
  IN  IF ~Contains(s, Begin(part)) THEN s \o <<Begin(part), dot, End(part)>>
      ELSE ReplaceBetween(s, part, dot)

Injected(b, part, s) ==
  IF b = "posix" THEN ReplaceOrAppend(s, FileOf[b][part]) ELSE InjectProfileLine(s, part)

-----------------------------------------------------------------------------
(* What may be there at first.                                             *)

\* No marker of a block between another block's begin and end.
Apart(s) ==
  \A p, q \in Parts, i, k, j \in DOMAIN s :
    i < k /\ k < j /\ s[i] = Begin(p) /\ s[j] = End(p) => s[k] \notin {Begin(q), End(q)}

ASSUME DocumentsAssumption ==
  /\ \A d \in Documents : /\ d = [env |-> d.env, shell |-> d.shell]
                          /\ IsFiniteSet(d.env) /\ IsFiniteSet(Entries(d.shell))
                          /\ \A S \in (SUBSET d.env) \cup (SUBSET Entries(d.shell)) : S # Absent
  /\ FirstSpecs \subseteq Documents
ASSUME HostsAssumption ==
  FirstHosts \subseteq Hosts /\ \A h \in Hosts : {h.windows, h.custom} \subseteq BOOLEAN
ASSUME RcsAssumption ==
  /\ Absent \notin Seq(Line)
  /\ \A first \in FirstRcs : /\ first \in [Rcs -> Seq(Line) \cup {Absent}]
                            /\ \A r \in Profiles : Apart(Lines(first[r]))
ASSUME BoundsAssumption == {MaxRuns, MaxFaults, MaxEdits} \subseteq Nat

-----------------------------------------------------------------------------
(* The apply.                                                              *)

NoLock == [env |-> {}, shell |-> NoShell]
Idle == [pc |-> "idle", doc |-> NoLock, lf |-> NoLock, todo |-> <<>>,
         settled |-> FALSE, failed |-> FALSE, warned |-> FALSE, since |-> 0]

\* A part nobody declares and the lock does not record is not looked at.
Skipped(part, doc, lf) ==
  IF part = "env" THEN doc.env = {} /\ lf.env = {}
  ELSE doc.shell = NoShell /\ lf.shell = NoShell

Due(part, r) == IF Skipped(part, r.doc, r.lf) THEN <<>> ELSE SelectBackends

\* The shell part, after the env part.
ShellTurn(r) ==
  IF Due("shell", r) = <<>> THEN [r EXCEPT !.pc = "rest", !.todo = <<>>, !.lf.shell = r.doc.shell]
  ELSE [r EXCEPT !.pc = "shell", !.todo = Due("shell", r)]

EnvTurn(r) ==
  IF Due("env", r) = <<>> THEN ShellTurn([r EXCEPT !.lf.env = r.doc.env])
  ELSE [r EXCEPT !.pc = "env", !.todo = Due("env", r)]

\* A part is given up: the next one has its turn.
GiveUp(part, r) ==
  IF part = "env" THEN ShellTurn(r) ELSE [r EXCEPT !.pc = "rest", !.todo = <<>>]

\* Mutant: what was to be written is recorded, written or not.
AfterAnyway(part, r) ==
  LET rest == Tail(r.todo)
      done == [r EXCEPT !.todo = rest, !.lf = [env |-> r.doc.env, shell |-> r.doc.shell]]
  IN  IF rest # <<>> THEN [done EXCEPT !.pc = part] ELSE GiveUp(part, done)

\* The first backend is done.  When all of them are, the lock in memory says so.
After(part, r) ==
  LET rest == Tail(r.todo)
      done == [r EXCEPT !.todo = rest]
  IN  IF rest # <<>> THEN [done EXCEPT !.pc = part]
      ELSE IF part = "env" THEN ShellTurn([done EXCEPT !.lf.env = r.doc.env])
      ELSE [done EXCEPT !.pc = "rest", !.lf.shell = r.doc.shell]

\* Nothing to do but to render again ("already up to date"); other is the work
\* that packages, services and files still need.
Settled(other) == ~other /\ ~Changed(EnvStatus(spec, lock)) /\ ~Changed(ShellStatus(spec, lock))

Fault == faults < MaxFaults /\ faults' = faults + 1

Apply ==
  /\ run.pc = "idle" /\ runs < MaxRuns /\ runs' = runs + 1
  /\ \E other \in BOOLEAN :
       run' = EnvTurn([Idle EXCEPT !.doc = spec, !.lf = lock, !.settled = Settled(other),
                               !.since = edits])
  /\ UNCHANGED <<spec, host, lock, fragment, rc, fresh, forgotten, faults, edits>>

Rendering(part) == run.pc = part
RcStep == [env |-> "env rc", shell |-> "shell rc"]
Injecting(part) == run.pc = RcStep[part]
Now == Head(run.todo)

\* Mutant: a fragment without content stays, empty.
RenderEmpty(part) ==
  /\ Rendering(part)
  /\ fragment' = [fragment EXCEPT ![FileOf[Now][part]] = Content(Now, part, run.doc)]
  /\ run' = IF NeedsLine(Now, part, run.doc) THEN [run EXCEPT !.pc = RcStep[part]]
            ELSE After(part, run)
  /\ UNCHANGED <<spec, host, lock, rc, fresh, forgotten, runs, faults, edits>>

\* Mutant: a fragment without content is not looked at.
RenderSome(part) ==
  /\ Rendering(part)
  /\ fragment' = IF Content(Now, part, run.doc) = {} THEN fragment
                 ELSE [fragment EXCEPT ![FileOf[Now][part]] = Content(Now, part, run.doc)]
  /\ run' = IF NeedsLine(Now, part, run.doc) THEN [run EXCEPT !.pc = RcStep[part]]
            ELSE After(part, run)
  /\ UNCHANGED <<spec, host, lock, rc, fresh, forgotten, runs, faults, edits>>

\* The fragment of one backend, written (or removed) in one rename, and then,
\* unless it is empty or in a directory of its own, the line that sources it.
Render(part) ==
  /\ Rendering(part)
  /\ fragment' = [fragment EXCEPT ![FileOf[Now][part]] = Rendered(Now, part, run.doc)]
  /\ run' = IF NeedsLine(Now, part, run.doc) THEN [run EXCEPT !.pc = RcStep[part]]
            ELSE After(part, run)
  /\ UNCHANGED <<spec, host, lock, rc, fresh, forgotten, runs, faults, edits>>

RenderFails(part) ==
  /\ Fault /\ Rendering(part)
  /\ run' = IF run.settled THEN Idle
            ELSE GiveUp(part, [run EXCEPT !.failed = TRUE])
  /\ forgotten' = TRUE
  /\ UNCHANGED <<spec, host, lock, fragment, rc, fresh, runs, edits>>

Inject(part) ==
  /\ Injecting(part)
  /\ rc' = [rc EXCEPT ![RcOf(Now)] = Injected(Now, part, Lines(@))]
  /\ run' = After(part, run)
  /\ UNCHANGED <<spec, host, lock, fragment, fresh, forgotten, runs, faults, edits>>

\* A start-up file that cannot be read or written is a warning; when the write
\* fails half-way (it is no rename) its old lines are gone.
InjectFails(part) ==
  /\ Fault /\ Injecting(part)
  /\ rc' \in {rc} \cup {[rc EXCEPT ![RcOf(Now)] = <<>>]}
  /\ run' = After(part, [run EXCEPT !.warned = TRUE])
  /\ fresh' = FALSE
  /\ UNCHANGED <<spec, host, lock, fragment, forgotten, runs, edits>>

\* Services, files and post-apply hooks, and the lock.  writeLockAfterApply keeps
\* the sections of what succeeded, whatever failed; but a settled run, which has
\* only hooks left, ends at once when one fails.
Finish ==
  /\ run.pc = "rest"
  /\ \/ /\ faults' = faults /\ lock' = run.lf
        /\ fresh' = (run.since = edits /\ ~run.failed /\ ~run.warned)
     \/ /\ Fault /\ lock' = IF run.settled THEN lock ELSE run.lf
        /\ fresh' = FALSE
  /\ run' = Idle
  /\ UNCHANGED <<spec, host, fragment, rc, forgotten, runs, edits>>

\* A kill, or the lock cannot be written.  A kill in the middle of the write of a
\* start-up file takes its lines.
Kill ==
  /\ Fault /\ run.pc # "idle"
  /\ run' = Idle /\ forgotten' = TRUE
  /\ \/ rc' = rc /\ fresh' = fresh
     \/ /\ \E part \in Parts : Injecting(part)
        /\ rc' = [rc EXCEPT ![RcOf(Now)] = <<>>]
        /\ fresh' = FALSE
  /\ UNCHANGED <<spec, host, lock, fragment, runs, edits>>

-----------------------------------------------------------------------------
(* The user.                                                               *)

Edit == edits < MaxEdits /\ edits' = edits + 1 /\ fresh' = FALSE

\* An apply works on the copy it has read: an edit meanwhile is as good as one
\* after it.
EditSpec ==
  /\ Edit /\ run.pc = "idle"
  /\ spec' \in Documents \ {spec}
  /\ UNCHANGED <<host, lock, fragment, rc, run, forgotten, runs, faults>>

\* The user adds a line anywhere in a start-up file of this host, or deletes one of
\* genv's; during an apply, between its two rewrites of the file.
EditRc ==
  /\ Edit /\ run.pc \in {"idle", "shell"}
  /\ \E b \in Backends : LET r == RcOf(b) s == Lines(rc[r]) IN
       /\ host.windows \/ b = "posix"
       /\ \/ /\ ~Contains(s, User("2"))
             /\ \E i \in 1..Len(s) + 1 : rc' = [rc EXCEPT ![r] = InsertAt(s, i, User("2"))]
          \/ \E i \in 1..Len(s) : s[i][1] # "user" /\ rc' = [rc EXCEPT ![r] = RemoveAt(s, i)]
  /\ UNCHANGED <<spec, host, lock, fragment, run, forgotten, runs, faults>>

\* Another login shell, or another PowerShell, between two applies.
ChangeHost ==
  /\ Edit /\ run.pc = "idle"
  /\ host' \in {h \in Hosts \ {host} : h.windows = host.windows /\ h.custom = host.custom}
  /\ forgotten' = TRUE
  /\ UNCHANGED <<spec, lock, fragment, rc, run, runs, faults>>

\* The lock is moved aside (--force-new-lock) or deleted between two applies.
LoseLock ==
  /\ Edit /\ run.pc = "idle" /\ lock # NoLock
  /\ lock' = NoLock /\ forgotten' = TRUE
  /\ UNCHANGED <<spec, host, fragment, rc, run, runs, faults>>

-----------------------------------------------------------------------------
Init ==
  /\ spec \in FirstSpecs
  /\ host \in FirstHosts
  /\ lock = NoLock
  /\ fragment = [f \in FragmentFiles |-> Absent]
  /\ rc \in FirstRcs
  /\ run = Idle
  /\ fresh = FALSE /\ forgotten = FALSE
  /\ runs = 0 /\ faults = 0 /\ edits = 0

Next ==
  \/ Apply
  \/ \E part \in Parts : \/ Render(part) \/ RenderFails(part)
                         \/ Inject(part) \/ InjectFails(part)
  \/ Finish \/ Kill
  \/ EditSpec \/ EditRc \/ ChangeHost \/ LoseLock

Spec == Init /\ [][Next]_vars

-----------------------------------------------------------------------------
(* Properties.                                                             *)

\* A fragment file that exists defines something, a start-up file is a sequence
\* of lines, and the lock holds what was declared at some time.
TypeOK ==
  /\ spec \in Documents /\ host \in Hosts
  /\ lock.env \in {d.env : d \in Documents} \cup {{}}
  /\ lock.shell \in {d.shell : d \in Documents} \cup {NoShell}
  /\ \A f \in FragmentFiles : fragment[f] = Absent \/ (fragment[f] # {} /\ IsFiniteSet(fragment[f]))
  /\ \A r \in Rcs : rc[r] = Absent \/ rc[r] \in Seq(Line)
  /\ run.pc \in {"idle", "env", "env rc", "shell", "shell rc", "rest"}
  /\ ToSet(run.todo) \subseteq Backends
  /\ fresh \in BOOLEAN /\ forgotten \in BOOLEAN
  /\ runs \in 0..MaxRuns /\ faults \in 0..MaxFaults /\ edits \in 0..MaxEdits

\* What a shell that starts now has from a part of the spec.
Shown(b, part) ==
  LET f == FileOf[b][part]
  IN  IF fragment[f] # Absent /\ (~ShouldInject \/ Contains(Lines(rc[RcOf(b)]), Source(f, "here")))
      THEN fragment[f] ELSE {}

\* A begin marker whose end the user has deleted.
Halved(r, part) ==
  LET s == Lines(rc[r]) b == FirstOf(s, Begin(part), 0)
  IN  b > 0 /\ FirstOf(s, End(part), b) = 0

\* After an apply that went through without a warning every shell of this host
\* starts with exactly what the spec declares for it: whatever earlier applies
\* failed at or were killed at, whatever the user had done to the start-up
\* files, and also when the lock had nothing to report (main.go:1807-1819).
\* But for a profile with half a block, which genv leaves alone
\* (powershell.go:241), and but for a part that neither spec nor lock know of,
\* which is not looked at (main.go:2067, 3153): what an apply the lock does not
\* know of has left there, stays.
ShellsSeeSpec ==
  fresh => \A b \in ToSet(SelectBackends), part \in Parts :
    \/ Shown(b, part) = Content(b, part, spec)
    \/ forgotten /\ Skipped(part, spec, lock)
    \/ b = "powershell" /\ Halved(RcOf(b), part)

\* The lock records a section only when every fragment of it on this host has
\* been written, also when another part of the apply has failed
\* (main.go:2061-2063, "The caller is responsible for persisting the lock").
RecordedWasWritten ==
  [][run.pc = "rest" =>
       \A part \in Parts, b \in ToSet(SelectBackends) :
         \/ lock'[part] = lock[part]
         \/ fragment[FileOf[b][part]] = Rendered(b, part, lock')
         \/ host.windows /\ run.since # edits]_vars

ByGenv == edits' = edits /\ faults' = faults

\* The start-up files that a step of an apply rewrites, though it has not failed.
Rewritten == {r \in Rcs : ByGenv /\ rc'[r] # rc[r]}

\* "a later apply is a no-op" (env.go:176): while nothing changes, applies leave
\* fragments, start-up files and lock as they are, with both parts taking turns
\* at one block.
AppliesSettle ==
  [][fresh /\ ByGenv => UNCHANGED <<fragment, rc, lock>>]_vars

\* The user's lines of a start-up file, but for those inside a PowerShell block.
Enclosed(s, i) ==
  \E part \in Parts : LET b == FirstOf(s, Begin(part), 0)
                      IN  b > 0 /\ b < i /\ i < FirstOf(s, End(part), b)
Own(s) == {i \in DOMAIN s : s[i][1] = "user" /\ ~Enclosed(s, i)}

\* "Anything after that run, including the user's own source lines, is left
\* alone" (env.go:173): no step of an apply, however often the user has moved,
\* split or halved genv's blocks, takes one of the user's lines or changes their
\* order.  A write that is killed or fails half-way does; it is no rename.
UsersLinesKept ==
  [][\A r \in Rewritten :
       LET s == Lines(rc[r]) t == Lines(rc'[r]) IN
       \E to \in [Own(s) -> DOMAIN t] : /\ \A i \in Own(s) : t[to[i]] = s[i]
                                        /\ \A i, j \in Own(s) : i < j => to[i] < to[j]]_vars

LinesFor(s, f) == {i \in DOMAIN s : s[i][1] = "source" /\ s[i][2] = f}
Count(s, f) == Cardinality(LinesFor(s, f))

\* Where the line for a fragment goes: the one block of a POSIX start-up file, the
\* block of its part in a profile.
InBlock(r, s, f) ==
  \E i \in LinesFor(s, f) :
    IF r \in PosixRcs THEN LET m == FirstOf(s, Marker, 0) IN m > 0 /\ m < i /\ i <= BlockEnd(s, m)
    ELSE \E part \in Parts : LET b == FirstOf(s, Begin(part), 0)
                              e == FirstOf(s, End(part), b)
                          IN  f = FileOf["powershell"][part] /\ b > 0 /\ b < i /\ i < e

\* "a later apply does not add a second copy" (SCHEMA.md:351): a line is added
\* for a fragment only where its block had none, also in a file that carries
\* another host's path.
SourcedOnce ==
  [][\A r \in Rewritten, f \in FragmentFiles :
       LET s == Lines(rc[r]) t == Lines(rc'[r])
       IN  Count(t, f) > Count(s, f) => ~InBlock(r, s, f)]_vars

-----------------------------------------------------------------------------
(* What the runs check together, as conjunctions of the above.             *)

\* A shell that starts after an apply has what the spec declares, in every
\* well-formed state.
NewShellsSeeSpec == TypeOK /\ ShellsSeeSpec

\* In a start-up file apply changes its own lines only, doubles none, and comes to
\* rest.
BlockIsAllThatChanges == AppliesSettle /\ UsersLinesKept /\ SourcedOnce

=============================================================================
