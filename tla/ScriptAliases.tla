---- MODULE ScriptAliases ----
(***************************************************************************)
(* Module aliases of a script project (languages/ts_config.rs): `paths` of *)
(* the nearest tsconfig or jsconfig, with what it extends, and `imports`   *)
(* of the nearest package.json, read lazily and memoised per directory.    *)
(* The files of a scan are read in parallel (indexer.rs, `par_iter`) and   *)
(* share the memos, whose locks are held for one access at a time.         *)
(*                                                                         *)
(* A path is its segments from the root of the disk.  Disk maps a path to  *)
(* the config there: [extends, base, paths, imports, real], where `real`   *)
(* is its path once symbolic links are followed, imports is a sequence of  *)
(* [pattern, targets], and paths is a set of at most one such sequence: {} *)
(* when the config has no `paths`, {<<>>} when it has an empty one.  A     *)
(* pattern or a target is segments, Wild the `*` and Hash the leading `#`. *)
(***************************************************************************)
EXTENDS Integers, Sequences, SequencesExt, FiniteSets, FiniteSetsExt, Functions, TLC

CONSTANTS MaxExtendsDepth,   \* MAX_EXTENDS_DEPTH, 8
          Roots,             \* the workspace roots
          Disk,              \* the configs of a script project,
          AliasScripts,      \* some of its scripts,
          AliasSpecifiers,   \* and what they import
          Scanners,          \* the threads that read files
          MaxAsked

ASSUME AliasAssumption == Roots \subseteq Seq(STRING) /\ AliasScripts \subseteq Seq(STRING)

VARIABLES memos,    \* the memos: kind of config -> directory -> what was found
          climbs,   \* the lookup each thread is in
          asked     \* the answers so far
aliasVars == <<memos, climbs, asked>>

Wild == "*"
Hash == "#"
Up == ".."
Here == "."
DirOf(path) == Front(path)

(* `clean`: the dots of a path resolved, as far as there is a directory to *)
(* leave.                                                                  *)
Clean(path) ==
  FoldLeft(LAMBDA out, s : CASE s = Here -> out
                             [] s = Up -> IF out # <<>> THEN Front(out) ELSE Append(out, Up)
                             [] OTHER -> Append(out, s), <<>>, path)

----------------------------------------------------------------------------
(* Rules.                                                                  *)

(* `AliasRule::new`: no rule for a catch-all.                              *)
RuleOf(pattern, target) ==
  LET stars == {i \in DOMAIN pattern : pattern[i] = Wild}
      at == Min(stars)
      prefix == IF stars = {} THEN pattern ELSE SubSeq(pattern, 1, at - 1)
  IN IF prefix = <<>> THEN {}
     ELSE {[prefix |-> prefix, suffix |-> IF stars = {} THEN <<>> ELSE SubSeq(pattern, at + 1, Len(pattern)),
            wildcard |-> stars # {}, target |-> target]}
(* `apply`: the first star of the target is what the pattern's captured.   *)
ApplyRule(r, spec) ==
  LET stars == {i \in DOMAIN r.target : r.target[i] = Wild}
      captured == SubSeq(spec, Len(r.prefix) + 1, Len(spec) - Len(r.suffix))
      filled == IF stars = {} THEN r.target
                ELSE SubSeq(r.target, 1, Min(stars) - 1) \o captured \o SubSeq(r.target, Min(stars) + 1, Len(r.target))
  IN IF ~r.wildcard THEN (IF spec = r.prefix THEN {r.target} ELSE {})
     ELSE IF /\ Len(spec) >= Len(r.prefix) + Len(r.suffix)
             /\ IsPrefix(r.prefix, spec) /\ IsSuffix(r.suffix, spec) THEN {filled} ELSE {}

(* `load_layer`: what a config and the ones it extends say, the last one   *)
(* that says it; a config outside the root is not read (`read_json`).      *)
NoLayer == [base |-> <<>>, paths |-> {}]
Over(l, up) == [base |-> IF up.base # <<>> THEN up.base ELSE l.base, paths |-> IF up.paths # {} THEN up.paths ELSE l.paths]
OwnLayer(c, dir) ==
  [base |-> IF c.base = <<>> THEN <<>> ELSE Clean(dir \o c.base), paths |-> {<<dir, p>> : p \in c.paths}]
ReadJson(path, jail) == IF path \in DOMAIN Disk /\ IsPrefix(jail, Disk[path].real) THEN {Disk[path]} ELSE {}
LoadLayer(path, jail) ==
  LET layer[left \in 0..(MaxExtendsDepth + 1)] ==
        [at \in DOMAIN Disk |->
           IF left = 0 \/ ReadJson(at, jail) = {} THEN NoLayer
           ELSE Over(FoldLeft(LAMBDA l, parent : IF parent \in DOMAIN Disk THEN Over(l, layer[left - 1][parent]) ELSE l,
                              NoLayer, Disk[at].extends),
                     OwnLayer(Disk[at], DirOf(at)))]
  IN layer[MaxExtendsDepth + 1][path]

(* `load_ts_rules`, `load_package_imports`: {} when the directory has no   *)
(* such config; one with nothing to say still ends the search.             *)
RulesOf(entries, base) ==
  UNION {IF entries[i].targets = <<>> THEN {} ELSE RuleOf(entries[i].pattern, Clean(base \o entries[i].targets[1])) : i \in DOMAIN entries}
LayerRules(layer) == UNION {RulesOf(p[2], IF layer.base = <<>> THEN p[1] ELSE layer.base) : p \in layer.paths}
LoadTsRules(dir, jail) ==
  LET named == SelectSeq(<<"tsconfig.json", "jsconfig.json">>, LAMBDA n : Append(dir, n) \in DOMAIN Disk)
  IN IF named = <<>> THEN {} ELSE {LayerRules(LoadLayer(Append(dir, named[1]), jail))}
ImportRules(c, dir) ==
  RulesOf(SelectSeq(c.imports, LAMBDA e : e.pattern[1] = Hash /\ e.targets # <<>> /\ e.targets[1][1] = Here), dir)
LoadPackageImports(dir, jail) ==
  LET path == Append(dir, "package.json")
  IN IF path \notin DOMAIN Disk THEN {} ELSE {UNION {ImportRules(c, dir) : c \in ReadJson(path, jail)}}
Load(dir, jail, what) == IF what = "ts" THEN LoadTsRules(dir, jail) ELSE LoadPackageImports(dir, jail)

(* The longest root over a directory.                                      *)
RootsOver(dir) == {r \in Roots : IsPrefix(r, dir)}
JailOf(dir) == {r \in RootsOver(dir) : \A s \in RootsOver(dir) : Len(s) <= Len(r)}

(* `relative_specifier`: up to the common directory and down again.        *)
Ascent(n) == IF n = 0 THEN <<Here>> ELSE [i \in 1..n |-> Up]
Across(f, t) ==
  LET same == Max({n \in 0..Min({Len(f), Len(t)}) : SubSeq(f, 1, n) = SubSeq(t, 1, n)})
  IN Ascent(Len(f) - same) \o SubSeq(t, same + 1, Len(t))
RelativeSpecifier(from, target) == Across(Clean(from), Clean(target))

(* `rewrite`, by the rule sets that govern the file (each a set of one, or *)
(* of none): the longest literal prefix wins, a tsconfig's on a tie.       *)
Fitting(rules, spec) == {r \in rules : ApplyRule(r, spec) # {}}
Longest(fit) == {r \in fit : \A q \in fit : Len(q.prefix) < Len(r.prefix) \/ (Len(q.prefix) = Len(r.prefix) /\ Len(r.suffix) <= Len(q.suffix))}
FirstRule(rules) == IF rules = {} THEN {} ELSE {CHOOSE r \in rules : TRUE}
TargetOf(rules, spec) ==
  {[len |-> Len(r.prefix), to |-> CHOOSE t \in ApplyRule(r, spec) : TRUE] : r \in FirstRule(Longest(Fitting(rules, spec)))}
LongestOf(ts, pkg) == IF ts # {} /\ (\A a \in ts, b \in pkg : a.len >= b.len) THEN ts ELSE pkg
Rewrite(file, spec, ts, pkg) ==
  IF spec[1] \in {Here, Up} THEN {}
  ELSE {RelativeSpecifier(DirOf(file), t.to) : t \in LongestOf(TargetOf(UNION ts, spec), TargetOf(UNION pkg, spec))}
(* `relative_to_root`: the path a file-system router is read from.         *)
RelativeToRoot(file) == {SubSeq(file, Len(r) + 1, Len(file)) : r \in JailOf(file)}

----------------------------------------------------------------------------
(* `Inner::nearest`, a step at a time: the memo is asked about a directory,*)
(* a miss reads the directory's config, and the directories climbed are    *)
(* remembered at the end unless another thread has been faster.            *)

Idle == [phase |-> "idle"]
StartOf(script, spec, jail, what, ts) ==
  [phase |-> "climb", script |-> script, spec |-> spec, jail |-> jail, what |-> what, at |-> DirOf(script),
   climbed |-> {}, found |-> {}, ts |-> ts]
AliasInit ==
  /\ memos = [what \in {"ts", "pkg"} |-> [d \in {} |-> {}]]
  /\ climbs = [w \in Scanners |-> Idle]
  /\ asked = <<>>
MayAsk(w) == climbs[w].phase = "idle" /\ Len(asked) + Cardinality({v \in Scanners : climbs[v].phase # "idle"}) < MaxAsked
(* What a lookup is for: the rules that are part of the file's cache key   *)
(* (`fingerprint_input`), and the rewriting of an import of it.            *)
Answer(script, spec, ts, pkg) ==
  [script |-> script, spec |-> spec, rules |-> [ts |-> UNION ts, pkg |-> UNION pkg], to |-> Rewrite(script, spec, ts, pkg)]

(* `rule_sets`: a file under no root is governed by nothing; otherwise the *)
(* tsconfig is looked for, then the package.json.                          *)
AskOutside(w, script, spec) ==
  /\ MayAsk(w) /\ JailOf(DirOf(script)) = {}
  /\ asked' = Append(asked, Answer(script, spec, {}, {}))
  /\ UNCHANGED <<memos, climbs>>
AskInside(w, script, spec, jail) ==
  /\ MayAsk(w) /\ jail \in JailOf(DirOf(script))
  /\ climbs' = [climbs EXCEPT ![w] = StartOf(script, spec, jail, "ts", {})]
  /\ UNCHANGED <<memos, asked>>

Ended(c, found, climbed) == [c EXCEPT !.phase = "store", !.found = found, !.climbed = climbed]
UpFrom(c) == [c EXCEPT !.climbed = c.climbed \cup {c.at}, !.at = DirOf(c.at)]
Climbing(w) == climbs[w].phase = "climb"
Remembers(w) == climbs[w].at \in DOMAIN memos[climbs[w].what]
LoadHere(c) == Load(c.at, c.jail, c.what)
Hit(w) ==
  LET c == climbs[w] IN
  /\ Climbing(w) /\ Remembers(w)
  /\ climbs' = [climbs EXCEPT ![w] = Ended(c, memos[c.what][c.at], c.climbed)]
  /\ UNCHANGED <<memos, asked>>
EndAt(w) ==
  LET c == climbs[w] IN
  /\ Climbing(w) /\ ~Remembers(w) /\ (LoadHere(c) # {} \/ c.at = c.jail)
  /\ climbs' = [climbs EXCEPT ![w] = Ended(c, LoadHere(c), c.climbed \cup {c.at})]
  /\ UNCHANGED <<memos, asked>>
GoUp(w) ==
  LET c == climbs[w] IN
  /\ Climbing(w) /\ ~Remembers(w) /\ LoadHere(c) = {} /\ c.at # c.jail
  /\ climbs' = [climbs EXCEPT ![w] = UpFrom(c)]
  /\ UNCHANGED <<memos, asked>>

(* A bug: what was found is remembered for every directory up to the root. *)
RememberedToRoot(memo, c) ==
  [d \in DOMAIN memo \cup c.climbed \cup {SubSeq(c.at, 1, n) : n \in Len(c.jail)..Len(c.at)} |->
     IF d \in DOMAIN memo THEN memo[d] ELSE c.found]
Remembered(memo, c) == [d \in DOMAIN memo \cup c.climbed |-> IF d \in DOMAIN memo THEN memo[d] ELSE c.found]
Storing(w, what) ==
  /\ climbs[w].phase = "store" /\ climbs[w].what = what
  /\ memos' = [memos EXCEPT ![what] = Remembered(@, climbs[w])]
StoreTs(w) ==
  LET c == climbs[w] IN
  /\ Storing(w, "ts")
  /\ climbs' = [climbs EXCEPT ![w] = StartOf(c.script, c.spec, c.jail, "pkg", c.found)]
  /\ UNCHANGED asked
StorePkg(w) ==
  LET c == climbs[w] IN
  /\ Storing(w, "pkg")
  /\ asked' = Append(asked, Answer(c.script, c.spec, c.ts, c.found))
  /\ climbs' = [climbs EXCEPT ![w] = Idle]

Asking(w) ==
  \E script \in AliasScripts, spec \in AliasSpecifiers :
    AskOutside(w, script, spec) \/ \E jail \in Roots : AskInside(w, script, spec, jail)
LookingUp(w) == Hit(w) \/ EndAt(w) \/ GoUp(w) \/ StoreTs(w) \/ StorePkg(w)
AliasNext == \E w \in Scanners : Asking(w) \/ LookingUp(w)
AliasSpec == AliasInit /\ [][AliasNext]_aliasVars

----------------------------------------------------------------------------
(* What governs a directory: the config nearest to it, from there up to    *)
(* its root.                                                               *)
Reach(dir, jail) == {SubSeq(dir, 1, n) : n \in Len(jail)..Len(dir)}
Holding(dir, jail, what) == {d \in Reach(dir, jail) : Load(d, jail, what) # {}}
NearestTo(dir, jail, what) ==
  {d \in Holding(dir, jail, what) : \A e \in Holding(dir, jail, what) : Len(e) <= Len(d)}
Governing(dir, what) ==
  UNION {UNION {Load(d, jail, what) : d \in NearestTo(dir, jail, what)} : jail \in JailOf(dir)}
GovernedBy(script, what) == Governing(DirOf(script), what)

(* The rules a script is read by, and so its cache key, and what becomes   *)
(* of an import of it do not depend on which scripts were asked for        *)
(* before, or are being asked for by other threads: they are those of the  *)
(* config nearest to it (`Inner::nearest`, `fingerprint_input`).           *)
AliasMemoAgrees ==
  \A n \in DOMAIN asked :
    asked[n] = Answer(asked[n].script, asked[n].spec, GovernedBy(asked[n].script, "ts"), GovernedBy(asked[n].script, "pkg"))

(* A rewritten import, followed from the script's own directory, leads to  *)
(* a target that a rule governing the script names (`relative_specifier`). *)
RewriteLeadsToTarget ==
  \A n \in DOMAIN asked : \A t \in asked[n].to :
    \E rule \in UNION (GovernedBy(asked[n].script, "ts") \cup GovernedBy(asked[n].script, "pkg")) :
      Clean(DirOf(asked[n].script) \o t) \in ApplyRule(rule, asked[n].spec)
=============================================================================
