---- MODULE Names ----
(***************************************************************************)
(* How the contract graph compares names.  A token is a run of words in    *)
(* one spelling (`SignUp`, `signUp`, `sign_up`, `SIGN_UP`, `signup`); a    *)
(* name, a package, a topic or a subject is a sequence of tokens, split at *)
(* its separators.  The characters inside a word are never told apart.     *)
(***************************************************************************)
EXTENDS Integers, Sequences, SequencesExt


(* A token; one word has fewer distinct spellings than several.            *)
Tok(w, s) ==
  [w |-> w, s |-> IF Len(w) > 1 THEN s
                  ELSE IF s \in {"lower", "camel", "snake"} THEN "lower"
                  ELSE IF s \in {"capital", "pascal"} THEN "pascal" ELSE "const"]
Word(w) == Tok(<<w>>, "lower")

(* `to_lowercase` keeps the underscores.                                   *)
LowerT(t) == Tok(t.w, IF t.s \in {"snake", "const"} THEN "snake" ELSE "lower")
Lower(n) == [i \in DOMAIN n |-> LowerT(n[i])]

EqIgnoreCase(a, b) == Lower(a) = Lower(b)

(* `to_pascal_case`: separators and underscores go, the letter after each  *)
(* is raised, the others stay as they are.                                 *)
PascalT(t) ==
  Tok(t.w, CASE t.s = "lower" -> "capital" [] t.s \in {"camel", "snake"} -> "pascal"
             [] t.s = "const" -> "upper" [] OTHER -> t.s)
WordsOf(n) == FlattenSeq([i \in DOMAIN n |-> n[i].w])
PascalName(n) == IF Len(n) = 1 THEN <<PascalT(n[1])>> ELSE <<Tok(WordsOf(n), "pascal")>>

(* `fold_rpc_name`, and what `bare_names_match` compares: the last token,  *)
(* without underscores and without case.                                   *)
FoldName(n) == Last(n).w
BareMatch(a, b) == FoldName(a) = FoldName(b)

(* `split_fully_qualified`: the package and the bare name.                 *)
Qualified(n) == Len(n) > 1
PkgOf(n) == Front(n)
BareOf(n) == <<Last(n)>>

(* `normalize_topic_key`: a reference to a constant (`Streams.CREATED`) is *)
(* its member alone; anything else is the name in lower case.              *)
Ident(t) == t \notin {Word("*"), Word(">"), Word("+"), Word("#")}
MemberRef(n) == /\ Qualified(n)
                /\ \A i \in DOMAIN n : Ident(n[i])
                /\ n[1].s \in {"pascal", "const", "capital", "upper"}
                /\ Last(n).s \in {"const", "upper"}
NormalizeTopicKey(n) == Lower(IF MemberRef(n) THEN BareOf(n) ELSE n)

(* `event.created` read as `event_created`.                                *)
Joined(n) == <<Tok(WordsOf(n), "snake")>>

(* A substring test, to the granularity of words and tokens.               *)
Run(s, t) == \E i \in 1..(Len(s) - Len(t) + 1) : SubSeq(s, i, i + Len(t) - 1) = t
Within(n, key) ==
  \/ Run(key, n)
  \/ Len(n) = 1 /\ \E i \in DOMAIN key : Run(key[i].w, n[1].w) /\ (Len(n[1].w) > 1 => n[1].s = key[i].s)

(* `<X>` as `<X>Service`; a client field `userClient` as `UserService`.    *)
EndsInService(n) == Last(Last(n).w) = "service"
WithService(n) == Front(n) \o <<Tok(Append(Last(n).w, "service"), "pascal")>>
ServiceFromField(f) ==
  IF Len(f.w) > 1 /\ f.s = "camel" /\ Last(f.w) \in {"client", "service"}
  THEN <<Tok(Append(Front(f.w), "service"), "pascal")>> ELSE <<>>

----------------------------------------------------------------------------
(* Wildcard subjects.  A subject is its separator and its tokens.          *)
One(sep) == Word(IF sep = "/" THEN "+" ELSE "*")
More(sep) == Word(IF sep = "/" THEN "#" ELSE ">")

IsSubjectPattern(sep, key) ==
  \E i \in DOMAIN key : key[i] = One(sep) \/ (key[i] = More(sep) /\ i = Len(key))

(* The loop of `subject_matches` walks both token lists in step: it stops  *)
(* at a final `more`, at the first token that differs, or at the end.      *)
SubjectMatches(sep, p, t) ==
  LET rest == Len(p) > 0 /\ Last(p) = More(sep)
      fixed == IF rest THEN Len(p) - 1 ELSE Len(p)
  IN /\ \A i \in 1..fixed : i <= Len(t) /\ (p[i] = One(sep) \/ p[i] = t[i])
     /\ IF rest THEN sep = "/" \/ Len(t) > fixed ELSE Len(t) = fixed
=============================================================================
