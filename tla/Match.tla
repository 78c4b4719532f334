------------------------------- MODULE Match -------------------------------
(***************************************************************************)
(* The request selectors of internal/match.  A text is a sequence of      *)
(* characters, and a path is what strings.Split(path, "/") makes of it: a  *)
(* sequence of segments, each of them a text ("/a/" is << <<>>, a, <<>> >> *)
(* and the empty path is << <<>> >>).                                      *)
(***************************************************************************)
EXTENDS Naturals, Sequences, SequencesExt

CONSTANTS ToUpper(_),    \* strings.ToUpper on a method
          Canonical(_)   \* http.Header's canonical form of a header name

Wild == "*"
DoubleWild == <<Wild, Wild>>

---------------------------------------------------------------------------
(* One segment. *)

\* strings.Split(pat, "*"): a star begins a new part.
Parts(pat) ==
  FoldLeft(LAMBDA parts, c : IF c = Wild THEN Append(parts, <<>>)
                             ELSE [parts EXCEPT ![Len(parts)] = Append(@, c)],
           << <<>> >>, pat)

\* Everything strings.Index can cut off seg before and with an occurrence of
\* mid: the lengths of the prefixes of seg that end in mid.
Ends(mid, seg) == {e \in 0 .. Len(seg) : IsSuffix(mid, SubSeq(seg, 1, e))}

DropPrefix(seg, e) == SubSeq(seg, e + 1, Len(seg))

\* Mutant of Floats: each part at its rightmost occurrence.
FloatsRightmost(mids, seg) ==
  FoldLeft(LAMBDA left, mid : {DropPrefix(s, Max(Ends(mid, s))) :
                                 s \in {t \in left : Ends(mid, t) # {}}},
           {seg}, mids) # {}

\* The floating parts, each at its leftmost occurrence in what is left: one
\* text, or none once a part was not found.
Floats(mids, seg) ==
  FoldLeft(LAMBDA left, mid : {DropPrefix(s, Min(Ends(mid, s))) :
                                 s \in {t \in left : Ends(mid, t) # {}}},
           {seg}, mids) # {}

matchSeg(pat, seg) ==
  LET parts == Parts(pat)
      first == parts[1]
      last  == parts[Len(parts)]
      rest  == DropPrefix(seg, Len(first))
  IN  IF Len(parts) = 1
      THEN pat = seg
      ELSE /\ IsPrefix(first, seg)
           /\ IsSuffix(last, rest)
           /\ Floats(SubSeq(parts, 2, Len(parts) - 1),
                     SubSeq(rest, 1, Len(rest) - Len(last)))

---------------------------------------------------------------------------
(* Whole paths. *)

\* strings.Trim(p, "/") before the split: empty segments at the ends vanish.
splitPath(p) ==
  LET full == {i \in DOMAIN p : p[i] # <<>>}
  IN  IF full = {} THEN <<>> ELSE SubSeq(p, Min(full), Max(full))

\* Mutant of matchSegs: a double wildcard stands for one segment at least.
matchSegsNonEmpty(pat, segs) ==
  LET m[i \in 1 .. Len(pat) + 1] ==
        IF i > Len(pat) THEN {Len(segs) + 1}
        ELSE IF pat[i] = DoubleWild
             THEN {j \in 1 .. Len(segs) + 1 : \E split \in m[i+1] : j < split}
        ELSE {j \in 1 .. Len(segs) : matchSeg(pat[i], segs[j]) /\ j + 1 \in m[i+1]}
  IN  1 \in m[1]

\* m[i]: where the segments begin that the pattern from i on matches.  For a
\* double wildcard every split point is tried.
matchSegs(pat, segs) ==
  LET m[i \in 1 .. Len(pat) + 1] ==
        IF i > Len(pat) THEN {Len(segs) + 1}
        ELSE IF pat[i] = DoubleWild
             THEN {j \in 1 .. Len(segs) + 1 : \E split \in m[i+1] : j <= split}
        ELSE {j \in 1 .. Len(segs) : matchSeg(pat[i], segs[j]) /\ j + 1 \in m[i+1]}
  IN  1 \in m[1]

MatchPath(pattern, path) == matchSegs(splitPath(pattern), splitPath(path))

---------------------------------------------------------------------------
(* Criteria: methods, a sequence; path, << <<>> >> when absent; headers, a *)
(* function from header names to required values.  A request has a method, *)
(* a path, and a header: a function from canonical names to sequences of   *)
(* values.                                                                 *)

NoPath == << <<>> >>

MatchesMethod(c, method) ==
  c.methods = <<>> \/ ToUpper(method) \in Range(c.methods)

MatchesHeaders(c, header) ==
  \A name \in DOMAIN c.headers :
     /\ Canonical(name) \in DOMAIN header
     /\ c.headers[name] \in Range(header[Canonical(name)])

Matches(c, req) ==
  /\ MatchesMethod(c, req.method)
  /\ c.path = NoPath \/ MatchPath(c.path, req.path)
  /\ MatchesHeaders(c, req.header)
=============================================================================
