---------------------------- MODULE MCFunctions ----------------------------
(***************************************************************************)
(* The pure functions against reference definitions: the matchers, the     *)
(* draws, and what a hop does to a message.  A behavior types the input of *)
(* one of them, two sequences, one element at a time.                      *)
(***************************************************************************)
EXTENDS HeaderRelay, MCRules, Seeded

CONSTANTS Letters,      \* what literal characters there are
          MaxPat,       \* bound: characters of a segment pattern
          MaxSeg,       \* bound: characters of a segment
          MaxPatSegs,   \* bound: segments of a path pattern, of a base path
          MaxSegs,      \* bound: segments of a path
          MaxBits,      \* bound: bits of a word that is typed
          MaxName,      \* bound: letters of a name
          MaxLines      \* bound: header lines of a message

\* The names of the run's responses are canonical, but for one.
ASSUME CanonicalAssumption ==
  /\ \A name \in {"Connection", "Keep-Alive", "X-User", "X-Slowlane-Request",
                  "X-Slowlane-Delay", "X-Slowlane-Echo"} : Canonical(name) = name
  /\ Canonical("x-user") = "X-User"

VARIABLES kind,         \* which function is looked at
          pat, seg      \* the two parts of its input typed so far

vars == <<kind, pat, seg>>

\* Segments of patterns and of paths, for whole paths ("" is a doubled slash).
PatSegs == {<<>>, DoubleWild, <<Wild>>, <<"a">>, <<"a", Wild>>}
PathSegs == {<<>>, <<"a">>, <<"b">>, <<"a", "b">>}

\* Header lines: of requests, and of responses of an upstream.
RequestLines ==
  {[name |-> "Connection", line |-> <<"x-user", "">>],
   [name |-> "Connection", line |-> <<"Connection", "X-Forwarded-For">>],
   [name |-> "Te", line |-> <<"trailers">>],
   [name |-> "x-user", line |-> <<"amy">>],
   [name |-> "X-User", line |-> <<"bob">>],
   [name |-> "Accept", line |-> <<"text", "json">>],
   [name |-> "X-Forwarded-For", line |-> <<>>],
   [name |-> "X-Forwarded-For", line |-> << <<"c0">>, <<"c1">> >>]}
ResponseLines ==
  {[name |-> "Connection", line |-> <<"X-Slowlane-Request", "x-user">>],
   [name |-> "Keep-Alive", line |-> <<"5">>],
   [name |-> "X-User", line |-> <<"amy">>],
   [name |-> "X-User", line |-> <<"bob">>],
   [name |-> "X-Slowlane-Request", line |-> <<77>>],
   [name |-> "X-Slowlane-Delay", line |-> <<88>>],
   [name |-> "X-Slowlane-Echo", line |-> <<1>>]}

\* How long the two parts may grow, and out of what, for each function.
Input ==
  [segment  |-> [pat |-> MaxPat, of |-> Letters \cup {Wild}, seg |-> MaxSeg, by |-> Letters],
   path     |-> [pat |-> MaxPatSegs, of |-> PatSegs, seg |-> MaxSegs, by |-> PathSegs],
   word     |-> [pat |-> MaxBits, of |-> {0, 1}, seg |-> 0, by |-> {}],
   label    |-> [pat |-> MaxName, of |-> {97, 98}, seg |-> MaxName, by |-> {97, 98}],
   request  |-> [pat |-> MaxLines, of |-> RequestLines, seg |-> 0, by |-> {}],
   response |-> [pat |-> MaxLines, of |-> ResponseLines, seg |-> 0, by |-> {}]]

Init == kind \in DOMAIN Input /\ pat = <<>> /\ seg = <<>>

TypePattern ==
  /\ Len(pat) < Input[kind].pat
  /\ \E c \in Input[kind].of : pat' = Append(pat, c)
  /\ UNCHANGED <<kind, seg>>

TypeInput ==
  /\ Len(seg) < Input[kind].seg
  /\ \E c \in Input[kind].by : seg' = Append(seg, c)
  /\ UNCHANGED <<kind, pat>>

Next == TypePattern \/ TypeInput
Spec == Init /\ [][Next]_vars

---------------------------------------------------------------------------
\* What a glob means, without an algorithm: the input is cut into one run per
\* pattern element, a plain element takes exactly itself, and the wildcard
\* takes any run.  cut[i] is where the run of element i starts.
Cuts(n, len) ==
  {cut \in [1 .. n + 1 -> 0 .. len] :
     cut[1] = 0 /\ cut[n+1] = len /\ \A i \in 1 .. n : cut[i] <= cut[i+1]}

GlobMatches(p, s, any, one(_, _)) ==
  \E cut \in Cuts(Len(p), Len(s)) :
     \A i \in DOMAIN p :
        p[i] = any \/ (cut[i+1] = cut[i] + 1 /\ one(p[i], s[cut[i+1]]))

SameChar(c, d) == c = d
SegMatches(p, s) == GlobMatches(p, s, Wild, SameChar)

\* What is between the empty elements at either end.
Stretches(p) == {SubSeq(p, ends[1], ends[2]) : ends \in (DOMAIN p) \X (DOMAIN p)}
HasNonEmptyEnds(p, t) ==
  \E i, j \in DOMAIN p :
     /\ t = SubSeq(p, i, j) /\ p[i] # <<>> /\ p[j] # <<>>
     /\ \A k \in DOMAIN p : p[k] # <<>> => k \in i .. j
NonEmptyEnds(p) ==
  IF \A i \in DOMAIN p : p[i] = <<>> THEN <<>>
  ELSE CHOOSE t \in Stretches(p) : HasNonEmptyEnds(p, t)

\* matchSeg's anchored ends and greedy leftmost middle parts accept exactly
\* the segments the wildcard language describes (match.go:58-69).
SegmentGlobIsExact ==
  kind = "segment" => (matchSeg(pat, seg) <=> SegMatches(pat, seg))

\* matchSegs' search over the split points of "**" accepts exactly the paths
\* that can be cut into runs of segments, one per pattern segment, slashes at
\* the ends set aside (match.go:63-66).
PathGlobIsExact ==
  kind = "path" =>
    (MatchPath(pat, seg) <=>
       GlobMatches(NonEmptyEnds(pat), NonEmptyEnds(seg), DoubleWild, SegMatches))
---------------------------------------------------------------------------
(* Draws. *)

CounterWord(n) == IF n <= LastCounter \div 2 THEN FromNat(n)
                  ELSE Bits \ FromNat(LastCounter - n)

Bytes(text) ==
  CASE text = "api"      -> <<97, 112, 105>>
    [] text = "brownout" -> <<98, 114, 111, 119, 110, 111, 117, 116>>
    [] text = "slow"     -> <<115, 108, 111, 119>>
    [] text = "flaky"    -> <<102, 108, 97, 107, 121>>
    [] text = "rate"     -> <<114, 97, 116, 101>>
    [] text = "jitter"   -> <<106, 105, 116, 116, 101, 114>>
    [] text = "p"        -> <<112>>
    [] text = "r"        -> <<114>>

DrawOf(seed, proxy, rule, purpose, n) ==
  DrawBits(word(FromNat(seed), Bytes(proxy), Bytes(rule), Bytes(purpose), CounterWord(n)))

\* The draws the other modules decide with are those of the code.
DrawsAreReal ==
  \A n \in Reached :
    \A rp \in {"brownout", "flaky"} \X {"rate"} \cup {"slow", "flaky"} \X {"jitter"} :
       MCDraw(rp[1], rp[2], n) = Whole(DrawOf(42, "api", rp[1], rp[2], n), RateScale)

\* The number a sequence of bits stands for, lowest bit first.
Number == ToNat({k - 1 : k \in {j \in DOMAIN pat : pat[j] = 1}})

\* Fifteen decimals of a draw.
Decimals(draw) ==
  LET rest == Rest(draw, 100000)
  IN  <<Whole(draw, 100000), Whole(rest, 100000), Whole(Rest(rest, 100000), 100000)>>

\* The draws are those docs/determinism.md publishes as part of the file
\* format (determinism.md:73-88, seeded_test.go:27-57): the values to fifteen
\* places, the jitter, and which of 11 to 13 a rate of 0.5 fires on; and so
\* are the draws the other modules decide with.
PublishedDraws ==
  kind = "word" =>
    LET draw == DrawOf(42, "api", "brownout", "rate", Number)
    IN  /\ Number = 1 => Decimals(draw) = <<77062, 81708, 33410>>
        /\ Number = 2 => Decimals(draw) = <<36894, 82555, 33524>>
        /\ Number = 3 => Decimals(draw) = <<83571, 26502, 56769>>
        /\ Number = 10 => Decimals(DrawOf(0, "p", "r", "jitter", 10)) = <<1744, 25804, 45358>>
        /\ Number \in 1 .. 3 =>
             DrawIntOf(DrawOf(42, "api", "slow", "jitter", Number), 100)
               = <<64, 79, 43>>[Number]
        /\ Number \in 11 .. 13 => (Whole(draw, 2) = 0 <=> Number # 12)
        /\ pat = <<>> => DrawsAreReal

\* A spread of words to flip bits of.
Samples == {mix(FromNat(k)) : k \in 1 .. 24}

\* "Every input bit affects every output bit, so nearby counters map to
\* unrelated draws" (seeded.go:30-32): for every input bit there are words in
\* which flipping it flips a given output bit.
EveryBitCounts ==
  kind = "word" /\ Len(pat) = 6 =>
    UNION {Xor(mix(w), mix(Xor(w, {Number}))) : w \in Samples} = Bits

\* mix, undone step by step.
Inverse1 == Hex(<<9,6,13,14, 1,11,1,7, 3,15,1,1, 9,0,8,9>>)
Inverse2 == Hex(<<3,1,9,6, 4,2,11,2, 13,2,4,13, 8,14,12,3>>)
Unshift(x, k) == Xor(x, Xor(ShiftRight(x, k), ShiftRight(x, 2 * k)))
Unmix(y) ==
  LET c == Times(Unshift(y, 31), Inverse2)
      b == Times(Unshift(c, 27), Inverse1)
      a == Unshift(b, 30)
  IN  Plus(Plus(a, Bits \ Golden), {0})

Names == UNION {[1 .. k -> {97, 98}] : k \in 1 .. MaxName}
Labels ==
  {<<c, fnv1a64(Joined(c[1], c[2], c[3]))>> :
     c \in Names \X Names \X {Bytes("rate"), Bytes("jitter")}}

\* Rules do not share their draws by accident: parts of a label cannot move
\* across the separators ("so that ("ab","c") and ("a","bc") cannot collide",
\* seeded.go:40-42), and with the label given the number of a request can be
\* read off the word, so no two requests draw the same one.
CoordinatesDoNotCollide ==
  /\ kind = "label" =>
       \A purpose \in {Bytes("rate"), Bytes("jitter")}, entry \in Labels :
          fnv1a64(Joined(pat, seg, purpose)) = entry[2]
            => entry[1] = <<pat, seg, purpose>>
  /\ kind = "word" =>
       LET seed == FromNat(42)
           w == word(seed, Bytes("p"), Bytes("r"), Bytes("rate"), FromNat(Number))
           label == fnv1a64(Joined(Bytes("p"), Bytes("r"), Bytes("rate")))
       IN  Unmix(Xor(Unmix(Xor(Unmix(w), seed)), label)) = FromNat(Number)

---------------------------------------------------------------------------
(* Hops. *)

Received(lines) == FoldLeft(LAMBDA h, l : Add(h, Canonical(l.name), <<l.line>>), NoHeaders, lines)

\* What a peer meant, read off the lines it sent: the lines of a name, the
\* names that concern this connection only, and the path so far.
LinesOf(lines, name) ==
  FoldLeft(LAMBDA own, l : IF Canonical(l.name) = name THEN Append(own, l.line) ELSE own,
           <<>>, lines)
ForThisHop(lines) ==
  hopByHop \cup UNION {{Canonical(e) : e \in Range(l.line) \ {""}} :
                         l \in {m \in Range(lines) : Canonical(m.name) = "Connection"}}
Sent(lines) == {Canonical(l.name) : l \in Range(lines)}

\* Behind two proxies in a row the upstream gets every end-to-end header as
\* the client sent it, line by line, nothing that was meant for the first
\* connection, and the path of the request: whom it came from as far as the
\* first line told, the client, the first proxy (proxy.go:168-175, 215-258).
\* The path asked for is the base and the request's path with one slash
\* between them (proxy.go:260-261).
RequestCrossesHops ==
  /\ kind = "request" =>
       LET h == RelayedRequest(RelayedRequest(Received(pat), <<"10.0.0.9", "4711">>),
                               <<"", "", "1", "8080">>)
           forwarded == LinesOf(pat, "X-Forwarded-For")
           path == (IF forwarded = <<>> THEN <<>> ELSE forwarded[1])
                   \o << <<"10.0.0.9">>, <<"", "", "1">> >>
           endToEnd == Sent(pat) \ (ForThisHop(pat) \cup {"X-Forwarded-For"})
       IN  /\ DOMAIN h = endToEnd \cup {"X-Forwarded-For"}
           /\ \A name \in endToEnd : h[name] = LinesOf(pat, name)
           /\ h["X-Forwarded-For"] = <<path>>
           /\ EchoHandler(h).body = [name \in DOMAIN h |-> h[name][1]]
  /\ kind = "path" /\ pat # <<>> /\ seg # <<>> =>
       LET base == IF EndsInSlash(pat) THEN Front(pat) ELSE pat
           path == IF StartsWithSlash(seg) THEN Tail(seg) ELSE seg
       IN  singleJoin(pat, seg) = IF base = << <<>> >> THEN seg ELSE base \o path

\* What one proxy, or two in a row, may do about a request.
Decision(delay, status, bps) ==
  [delay |-> delay, status |-> status, statusRule |-> "brownout",
   throttle_bps |-> bps, throttleRule |-> "drip"]
Relays == {Decision(0, 0, 0), Decision(30, 0, 0), Decision(40, 0, 50)}
Injects == {Decision(30, 503, 0)}
Unreachable == Decision(20, 502, 0)   \* relays, but the round trip fails
NoProxy == Decision(0, 0, -1)

Response(upstream, n, dec) ==
  CASE dec = NoProxy     -> upstream
    [] dec = Unreachable -> UnreachableResponse(n)
    [] dec \in Injects   -> InjectedResponse(n, dec)
    [] dec \in Relays    -> RelayedResponse(upstream, n, dec)

\* A response tells the client who made it.  It has the number of the nearest
\* proxy, once, whatever numbers came along with it and whatever the upstream
\* nominates; the mark of an injected status or of a failed upstream exactly
\* if a proxy wrote the response, and then nothing the upstream sent, its
\* X-Slowlane-Echo included; otherwise the end-to-end headers of the upstream
\* line by line.  A response that is not a 502 of slowlane's has the delay of
\* the nearest proxy that delayed it (proxy.go:142-145, 189-213, echo.go:25-27).
\* That a 502 has no delay at all is a deviation from the documents, see
\* DelayedResponsesAreMarked of ProxyServer.
ResponseTellsItsOrigin ==
  kind = "response" =>
    \A near \in Relays \cup Injects \cup {Unreachable},
       far \in Relays \cup Injects \cup {Unreachable, NoProxy} :
      LET upstream == Received(pat)
          h == Response(Response(upstream, 5, far), 9, near)
          writer == IF near \notin Relays THEN near ELSE far
          relayed == writer \in Relays \cup {NoProxy}
          own == {"X-Slowlane-Request", "X-Slowlane-Delay", "X-Slowlane-Throttled",
                  "X-Slowlane-Injected", "X-Slowlane-Upstream-Error", "Content-Type"}
          endToEnd == Sent(pat) \ (ForThisHop(pat) \cup own)
          delay == IF near.delay > 0 THEN << <<near.delay>> >>
                   ELSE IF far.delay > 0 THEN << <<far.delay>> >>
                   ELSE IF relayed THEN LinesOf(pat, "X-Slowlane-Delay") ELSE <<>>
      IN  /\ Values(h, "X-Slowlane-Request") = << <<9>> >>
          /\ "X-Slowlane-Injected" \in DOMAIN h <=> writer \in Injects
          /\ "X-Slowlane-Upstream-Error" \in DOMAIN h <=> writer = Unreachable
          /\ DOMAIN h \ own = IF relayed THEN endToEnd ELSE {}
          /\ relayed => \A name \in endToEnd : h[name] = LinesOf(pat, name)
          /\ writer # Unreachable => Values(h, "X-Slowlane-Delay") = delay
=============================================================================
