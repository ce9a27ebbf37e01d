------------------------------- MODULE Assets -------------------------------
(***************************************************************************)
(* cmd/chn-resolver/main.go: the start of the process, loadAssets over the *)
(* files on disk (internal/china/loader.go), the classification of the     *)
(* upstreams, and handleReloads with the SIGHUP channel, while somebody    *)
(* edits the files.                                                        *)
(*                                                                         *)
(* A file is a record: `ok' is FALSE when it cannot be opened or read.  A  *)
(* line of a prefix file is nothing ("skip"), malformed ("bad") or a       *)
(* "prefix", with an address whose host bits need not be clear.  A file is *)
(* read in one step; the files are read one after the other.               *)
(***************************************************************************)
EXTENDS ChinaIndex, Overrides, Config

CONSTANTS
  Starts,  \* configurations and disks the process may start with, and how many
           \* edits follow
  Drafts,  \* the contents an edit may give each file
  Names    \* names that are looked up in the override list

NoFile == "none"

\* The lines and the files, as they are used.  The addresses of a family are a
\* multiple of those of a prefix: both are powers of two in the program.
PrefixLine ==
  [kind : {"skip", "bad"}] \cup
  { l \in [kind : {"prefix"}, addr : Address, block : 1..N6] :
      \E n \in 1..N6 : n * l.block = IF Is4(l.addr) THEN N4 ELSE N6 }

OverridesLine == [kind : {"skip"}] \cup [kind : {"exact", "wildcard"}, name : Seq(Label)]

PrefixFile    == [ok : BOOLEAN, lines : Seq(PrefixLine)]
OverridesFile == [ok : BOOLEAN, lines : Seq(OverridesLine)]

\* File f may have the contents c under the configuration r.
Fits(r, f, c) ==
  /\ (\E i \in DOMAIN r.prefixFiles : r.prefixFiles[i] = f) => c \in PrefixFile
  /\ f = r.overridesFile => c \in OverridesFile

ASSUME AssetsAssumption ==
  /\ Names \subseteq Seq(Label)
  /\ \A s \in Starts :
       /\ Durations(s.raw) \subseteq RawDuration
       /\ s.raw.prefixFiles \in Seq(DOMAIN s.disk)
       /\ s.raw.overridesFile \in DOMAIN s.disk \cup {NoFile}
       /\ NoFile \notin DOMAIN s.disk
       /\ \A f \in DOMAIN s.disk : Fits(s.raw, f, s.disk[f])
       /\ \A f \in DOMAIN Drafts : \A c \in Drafts[f] : Fits(s.raw, f, c)

NoBundle == [ix |-> [f \in {"v4", "v6"} |-> <<>>], ov |-> LoadFrom(<<>>)]

VARIABLES
  raw,      \* the configuration file, and the -check flag
  cfg,      \* main's cfg, which never changes after loadConfig
  disk,     \* the files
  edits,    \* the edits to come (a bound)
  pc,       \* "config", "load", "publish", "serve" or "ended"
  next,     \* Load: the prefix file to read next
  ov,       \* the override set that was loaded
  bundle,   \* the engine's assets
  inChina,  \* the flag of each upstream
  started,  \* signal.Notify has been called
  hup,      \* the signals in the channel, whose capacity is 1
  asked,    \* (history) a signal came after the last edit
  reading,  \* (history) the files as this load has read them
  origin    \* (history) the files that the engine's assets were read from

processVars == <<raw, cfg, disk, edits, pc, next, ov, bundle, inChina, started, hup, asked, reading, origin>>
vars == <<indexVars, processVars>>

Init ==
  /\ IndexInit
  /\ \E s \in Starts : raw = s.raw /\ disk = s.disk /\ edits = s.edits
  /\ cfg = Defaults
  /\ pc = "config"
  /\ next = 1
  /\ ov = NoBundle.ov /\ bundle = NoBundle
  /\ inChina = <<>>
  /\ started = FALSE /\ hup = 0 /\ asked = FALSE
  /\ reading = <<>> /\ origin = <<>>

\* loadConfig: an error is fatal.
LoadConfig ==
  /\ pc = "config"
  /\ \/ Accepted(raw) /\ pc' = "load" /\ cfg' = Built(raw)
     \/ ~ Accepted(raw) /\ pc' = "ended" /\ cfg' = cfg
  /\ UNCHANGED <<indexVars, raw, disk, edits, next, ov, bundle, inChina, started, hup, asked, reading, origin>>

-----------------------------------------------------------------------------
\* ParsePrefixLine: the host bits are cleared.
Masked(l) ==
  LET base == IF Is4(l.addr) THEN 0 ELSE N4
  IN  [addr |-> l.addr - ((l.addr - base) % l.block), block |-> l.block]

\* loadFile's loop: the prefixes of the lines, in their order.
Prefixes(lines) ==
  LET found[n \in 0..Len(lines)] ==
        IF n = 0 THEN <<>>
        ELSE IF lines[n].kind = "prefix" THEN Append(found[n - 1], Masked(lines[n])) ELSE found[n - 1]
  IN  found[Len(lines)]

\* A mutated form: a file without prefixes is no error.
LoadsEmpty(file) ==
  file.ok /\ \A i \in DOMAIN file.lines : file.lines[i].kind # "bad"

\* loadFile succeeds and finds something.
Loads(file) ==
  /\ file.ok
  /\ \A i \in DOMAIN file.lines : file.lines[i].kind # "bad"
  /\ Prefixes(file.lines) # <<>>

\* A mutated form: an error is fatal in a reload too.
FailFatal ==
  /\ Discard
  /\ pc' = "ended"
  /\ next' = 1 /\ ov' = NoBundle.ov /\ reading' = <<>>
  /\ UNCHANGED <<raw, cfg, disk, edits, bundle, inChina, started, hup, asked, origin>>

\* loadAssets returns an error: at start it is fatal, later handleReloads keeps
\* the assets and waits for the next signal.
Fail ==
  /\ Discard
  /\ pc' = IF started THEN "serve" ELSE "ended"
  /\ next' = 1 /\ ov' = NoBundle.ov /\ reading' = <<>>
  /\ UNCHANGED <<raw, cfg, disk, edits, bundle, inChina, started, hup, asked, origin>>

\* china.Load reads the next file, or has read them all and calls Build.
ReadFile ==
  /\ pc = "load" /\ stage = "read" /\ next <= Len(cfg.prefixFiles)
  /\ LET file == disk[cfg.prefixFiles[next]]
     IN  \/ ~ Loads(file) /\ Fail
         \/ /\ Loads(file)
            /\ Read(Prefixes(file.lines))
            /\ next' = next + 1
            /\ reading' = Append(reading, file)
            /\ UNCHANGED <<raw, cfg, disk, edits, pc, ov, bundle, inChina, started, hup, asked, origin>>

BuildIndex ==
  /\ pc = "load"
  /\ \/ Build /\ next > Len(cfg.prefixFiles)
     \/ Merge
     \/ Merged
  /\ UNCHANGED processVars

\* The overrides file, if there is one.
ReadOverrides ==
  /\ pc = "load" /\ stage = "built"
  /\ \/ /\ cfg.overridesFile # NoFile /\ ~ disk[cfg.overridesFile].ok
        /\ Fail
     \/ /\ cfg.overridesFile # NoFile /\ disk[cfg.overridesFile].ok
        /\ ov' = LoadFrom(disk[cfg.overridesFile].lines)
        /\ reading' = Append(reading, disk[cfg.overridesFile])
        /\ pc' = "publish"
        /\ UNCHANGED <<indexVars, raw, cfg, disk, edits, next, bundle, inChina, started, hup, asked, origin>>
     \/ /\ cfg.overridesFile = NoFile
        /\ ov' = LoadFrom(<<>>)
        /\ pc' = "publish"
        /\ UNCHANGED <<indexVars, raw, cfg, disk, edits, next, bundle, inChina, started, hup, asked, reading, origin>>

-----------------------------------------------------------------------------
\* classifyUpstreams: an explicit role wins.
classifyUpstreams(index) ==
  [ i \in DOMAIN cfg.upstreams |->
      LET u == cfg.upstreams[i]
      IN  u.role = "china" \/ (u.role = "auto" /\ Contains(index, u.addr)) ]

\* At start the upstreams are classified.  With -check that is all; else the
\* engine is made and the signal channel opened.
CheckOnly ==
  /\ pc = "publish" /\ raw.check
  /\ inChina' = classifyUpstreams(ix)
  /\ pc' = "ended"
  /\ UNCHANGED <<indexVars, raw, cfg, disk, edits, next, ov, bundle, started, hup, asked, reading, origin>>

\* After a reload, UpdateAssets.  (The cache's Flush, which follows, is in
\* Resolver.)
Publish ==
  /\ pc = "publish" /\ ~ raw.check
  /\ bundle' = [ix |-> ix, ov |-> ov]
  /\ inChina' = IF started THEN inChina ELSE classifyUpstreams(ix)
  /\ started' = TRUE
  /\ origin' = reading
  /\ pc' = "serve" /\ next' = 1 /\ ov' = NoBundle.ov /\ reading' = <<>>
  /\ Discard
  /\ UNCHANGED <<raw, cfg, disk, edits, hup, asked>>

\* handleReloads receives a signal.
Reload ==
  /\ pc = "serve" /\ hup = 1
  /\ hup' = 0
  /\ pc' = "load"
  /\ UNCHANGED <<indexVars, raw, cfg, disk, edits, next, ov, bundle, inChina, started, asked, reading, origin>>

\* RunJanitor: build accepts any sweep interval, and NewTicker panics when it is
\* not positive, which ends the process.
JanitorPanics ==
  /\ started /\ pc # "ended" /\ cfg.sweep <= 0
  /\ pc' = "ended"
  /\ UNCHANGED <<indexVars, raw, cfg, disk, edits, next, ov, bundle, inChina, started, hup, asked, reading, origin>>

\* A mutated form: the channel has no buffer.
SighupUnbuffered ==
  /\ pc # "ended"
  /\ started
  /\ pc' = IF pc = "serve" THEN "load" ELSE pc
  /\ asked' = TRUE
  /\ UNCHANGED <<indexVars, raw, cfg, disk, edits, next, ov, bundle, inChina, started, hup, reading, origin>>

\* SIGHUP: before signal.Notify it ends the process; then it is put into the
\* channel, or dropped when the channel is full.
Sighup ==
  /\ pc # "ended"
  /\ \/ /\ ~ started
        /\ pc' = "ended"
        /\ UNCHANGED <<hup, asked>>
     \/ /\ started
        /\ hup' = 1 /\ asked' = TRUE
        /\ UNCHANGED pc
  /\ UNCHANGED <<indexVars, raw, cfg, disk, edits, next, ov, bundle, inChina, started, reading, origin>>

Edit ==
  /\ edits > 0
  /\ edits' = edits - 1
  /\ \E f \in DOMAIN Drafts : \E c \in Drafts[f] : disk' = [disk EXCEPT ![f] = c]
  /\ asked' = FALSE
  /\ UNCHANGED <<indexVars, raw, cfg, pc, next, ov, bundle, inChina, started, hup, reading, origin>>

Step == LoadConfig \/ ReadFile \/ BuildIndex \/ ReadOverrides \/ CheckOnly \/ Publish \/ Reload \/ JanitorPanics

Next == Step \/ Sighup \/ Edit

Spec == Init /\ [][Next]_vars

\* The goroutine of handleReloads goes on.  Nothing is assumed of signals and
\* editors.
FairSpec == Spec /\ WF_vars(Step)

-----------------------------------------------------------------------------
\* What the disk would give a load: every file in order.
Files == cfg.prefixFiles \o (IF cfg.overridesFile = NoFile THEN <<>> ELSE <<cfg.overridesFile>>)

Current == [i \in DOMAIN Files |-> disk[Files[i]]]

PrefixesRead ==
  { Masked(l) : l \in UNION { { origin[i].lines[k] : k \in { k \in DOMAIN origin[i].lines :
                                                           origin[i].lines[k].kind = "prefix" } } :
                             i \in DOMAIN cfg.prefixFiles } }

\* The assets that the engine uses come from one complete load: every prefix
\* file gave at least one prefix and nothing malformed, and an address is in
\* the index exactly when a prefix of one of these files holds it, whatever
\* loads have failed half way since.
BundleComplete ==
  started =>
    /\ Len(origin) = Len(Files)
    /\ \A i \in DOMAIN cfg.prefixFiles :
         /\ \E k \in DOMAIN origin[i].lines : origin[i].lines[k].kind = "prefix"
         /\ \A k \in DOMAIN origin[i].lines : origin[i].lines[k].kind # "bad"
    /\ LET ps == PrefixesRead
       IN  (\A p \in ps : Regular(p)) =>
             \A ip \in Address : Contains(bundle.ix, ip) <=> \E p \in ps : Inside(Unmap(ip), p)

\* A name is on the engine's override list exactly when the file that was read
\* has it, or has "*." and a proper ancestor of it, in upper or lower case.
OverridesExact ==
  started =>
    \A q \in Names :
      Match(bundle.ov, q) <=>
        /\ cfg.overridesFile # NoFile
        /\ \E k \in DOMAIN origin[Len(origin)].lines :
             LET l == origin[Len(origin)].lines[k]
             IN  /\ l.kind # "skip" /\ l.name # <<>>
                 /\ \E n \in 0..Len(q) :
                      /\ normalize(SubSeq(q, n + 1, Len(q))) = normalize(l.name)
                      /\ n > 0 <=> l.kind = "wildcard"

\* Once the process serves, no file on disk and no SIGHUP ends it, provided that
\* the sweep interval is positive, and no reload changes the flag of an
\* upstream, which Engine takes for a constant.
StaysUp == [][started => inChina' = inChina /\ (cfg.sweep > 0 => pc' # "ended")]_vars

\* A signal is not lost: when it comes after the last edit, also in the middle
\* of a load that has read some of the files, the files as they are now are
\* loaded, unless one of them is faulty or the process ends (StaysUp).
ReloadCatchesUp ==
  asked ~> \/ ~ asked \/ pc = "ended"
           \/ origin = Current
           \/ \E i \in DOMAIN Files :
                IF i \in DOMAIN cfg.prefixFiles THEN ~ Loads(disk[Files[i]]) ELSE ~ disk[Files[i]].ok

\* What the other parts rely on: upstreams can be told apart by their
\* addresses, a query attempt fits into the time of the whole resolution, and
\* the clamps of the service are in order after the conversion, as long as the
\* durations fit into a uint32.
ConfigSound ==
  pc \in {"load", "publish", "serve"} =>
    /\ \A i, j \in DOMAIN cfg.upstreams : i # j => cfg.upstreams[i].addr # cfg.upstreams[j].addr
    /\ cfg.attempt <= cfg.overall
    /\ (\A d \in {cfg.minTTL, cfg.maxTTL, cfg.negMinTTL, cfg.negMaxTTL} : d \in 0..(Width * Second - 1)) =>
         /\ Uint32(cfg.minTTL) <= Uint32(cfg.maxTTL)
         /\ Uint32(cfg.negMinTTL) <= Uint32(cfg.negMaxTTL)
=============================================================================
