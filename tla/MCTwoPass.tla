----------------------------- MODULE MCTwoPass -----------------------------
(***************************************************************************)
(* TwoPass over a handful of names: two spellings of one file, a case      *)
(* variant of it as a directory, a name the file system gives the same     *)
(* entry, the member signature validation reads under two spellings, and   *)
(* the root; and over headers at each limit.                               *)
(***************************************************************************)
EXTENDS TwoPass, TLC

MCParts ==
  "a" :> <<"a">> @@ "./a" :> <<"a">> @@ "a/b" :> <<"a", "b">> @@ "A/b" :> <<"A", "b">>
  @@ "A/c" :> <<"A", "c">> @@ "a~1" :> <<"a~1">> @@ "sig" :> <<"sig">>
  @@ "./sig" :> <<"sig">> @@ "." :> <<>> @@ "link/x" :> <<"link", "x">> @@ ".." :> <<"..">>
MCNames == DOMAIN MCParts
Components == UNION {{MCParts[n][k] : k \in DOMAIN MCParts[n]} : n \in MCNames}
MCKey == [c \in Components |-> IF c = "A" THEN "a" ELSE c]
MCFs == [c \in Components |-> IF c = "a~1" THEN "a" ELSE c]

Plain(n, k) == [name |-> n, kind |-> k, size |-> 500, head |-> 512, glob |-> 0, sound |-> TRUE]
MCHeaders ==
  {Plain(n, "file") : n \in MCNames}
  \cup {Plain(n, "dir") : n \in {"a", "A/c", "a/b", "sig", "."}}
  \cup {Plain("a", "other"), [Plain("a", "file") EXCEPT !.sound = FALSE]}
  \cup {[Plain("sig", "file") EXCEPT !.size = s] : s \in {0, 700, 1100}}
  \cup {[Plain("sig", "file") EXCEPT !.size = 700, !.head = 4096]}
  \cup {[Plain("a", "file") EXCEPT !.head = h] : h \in {4096, 4608}}
  \cup {[Plain("a", "file") EXCEPT !.head = 512 + g + 4096, !.glob = g] : g \in {512, 1024}}
  \cup {[Plain("a", "file") EXCEPT !.head = 4096 + g, !.glob = g] : g \in {512, 1024, 1536}}
=============================================================================
