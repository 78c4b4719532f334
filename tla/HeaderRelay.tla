----------------------------- MODULE HeaderRelay -----------------------------
(***************************************************************************)
(* What a message looks like behind a hop (internal/proxy): the headers    *)
(* forward relays in either direction, those of the responses slowlane     *)
(* writes itself, the path it asks the upstream for, and the echo upstream.*)
(* A header map takes canonical names to the lines of that name; a line is *)
(* the sequence of its comma-separated elements, "" is <<>>.  A path is    *)
(* the sequence of its segments, as in Match.                              *)
(***************************************************************************)
EXTENDS Match

NoHeaders == [name \in {} |-> <<>>]

Values(h, name) == IF name \in DOMAIN h THEN h[name] ELSE <<>>
FirstLine(h, name) == IF Values(h, name) = <<>> THEN <<>> ELSE Values(h, name)[1]
Del(h, names) == [name \in DOMAIN h \ names |-> h[name]]
Set(h, name, line) ==
  [x \in DOMAIN h \cup {name} |-> IF x = name THEN <<line>> ELSE h[x]]
Add(h, name, lines) ==
  [x \in DOMAIN h \cup {name} |-> IF x = name THEN Values(h, x) \o lines ELSE h[x]]

hopByHop ==
  {"Connection", "Keep-Alive", "Proxy-Authenticate", "Proxy-Authorization",
   "Proxy-Connection", "Te", "Trailer", "Transfer-Encoding", "Upgrade"}

\* The names the elements of the Connection lines nominate.
Nominated(h) ==
  {Canonical(name) : name \in (UNION {Range(line) : line \in Range(Values(h, "Connection"))})
                              \ {""}}

\* Mutant of stripHopByHop: the fixed names, Connection among them, go first.
stripHopByHopFixedFirst(h) ==
  LET fixed == Del(h, hopByHop) IN Del(fixed, Nominated(fixed))

stripHopByHop(h) == Del(Del(h, Nominated(h)), hopByHop)

copyHeader(dst, src) ==
  [name \in DOMAIN dst \cup DOMAIN src |-> Values(dst, name) \o Values(src, name)]

---------------------------------------------------------------------------
(* The request on its way to the upstream. *)

\* RemoteAddr, split at its colons, without the port behind the last one.
Host(remote) ==
  IF Len(remote) > 1 /\ Front(remote) # <<"">> THEN Front(remote) ELSE remote

\* Mutant of appendForwardedFor: the path so far is overwritten.
appendForwardedForOverwriting(out, in, remote) ==
  IF Host(remote) = <<"">> THEN out
  ELSE Set(out, "X-Forwarded-For", <<Host(remote)>>)

\* The path so far is read from the request as it came in, and only from its
\* first line.
appendForwardedFor(out, in, remote) ==
  IF Host(remote) = <<"">> THEN out
  ELSE Set(out, "X-Forwarded-For", Append(FirstLine(in, "X-Forwarded-For"), Host(remote)))

RelayedRequest(h, remote) == appendForwardedFor(stripHopByHop(h), h, remote)

\* Concatenation of texts that are split at slashes.
Concat(s, t) == Front(s) \o <<Last(s) \o t[1]>> \o Tail(t)

EndsInSlash(s) == Len(s) > 1 /\ Last(s) = <<>>
StartsWithSlash(s) == Len(s) > 1 /\ s[1] = <<>>

singleJoin(base, path) ==
  IF base = << <<>> >> \/ base = << <<>>, <<>> >> THEN path
  ELSE CASE EndsInSlash(base) /\ StartsWithSlash(path)   -> Concat(base, Tail(path))
         [] ~EndsInSlash(base) /\ ~StartsWithSlash(path) -> base \o path
         [] OTHER                                        -> Concat(base, path)

---------------------------------------------------------------------------
(* The response on its way to the client, under a decision of the engine.  *)

setDelayHeader(h, dec) ==
  IF dec.delay > 0 THEN Set(h, "X-Slowlane-Delay", <<dec.delay>>) ELSE h

setThrottleHeader(h, dec) ==
  IF dec.throttle_bps > 0 THEN Set(h, "X-Slowlane-Throttled", <<dec.throttleRule>>) ELSE h

Annotated(h, n, dec) ==
  setThrottleHeader(setDelayHeader(Set(h, "X-Slowlane-Request", <<n>>), dec), dec)

\* Mutant of RelayedResponse: slowlane's own headers are set, then stripped.
RelayedResponseStrippedLast(upstream, n, dec) ==
  stripHopByHop(Annotated(copyHeader(NoHeaders, upstream), n, dec))

RelayedResponse(upstream, n, dec) ==
  Annotated(stripHopByHop(copyHeader(NoHeaders, upstream)), n, dec)

Plain(h) == Set(h, "Content-Type", <<"text/plain">>)

InjectedResponse(n, dec) ==
  setDelayHeader(
    Set(Set(Plain(NoHeaders), "X-Slowlane-Injected", <<dec.statusRule>>),
        "X-Slowlane-Request", <<n>>), dec)

UnreachableResponse(n) ==
  Set(Set(Plain(NoHeaders), "X-Slowlane-Upstream-Error", <<1>>),
      "X-Slowlane-Request", <<n>>)

---------------------------------------------------------------------------
(* The echo upstream: 200, its marker, and the request it saw with one     *)
(* line per name.                                                          *)

EchoHandler(h) ==
  [header |-> Set(Set(NoHeaders, "Content-Type", <<"application/json">>),
                  "X-Slowlane-Echo", <<1>>),
   body   |-> [name \in DOMAIN h |-> FirstLine(h, name)]]
=============================================================================
