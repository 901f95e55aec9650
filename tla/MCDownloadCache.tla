-------------------------- MODULE MCDownloadCache --------------------------
(***************************************************************************)
(* Small instances of DownloadCache.                                       *)
(***************************************************************************)
EXTENDS DownloadCache, TLC

CONSTANTS a, b, c1, c2

MCCalls == {c1, c2}
MCKeys == {a, b}
MCUrls == {"remote", "file"}
MCHosts == {"net"}
MCHostOf == [u \in MCUrls |-> IF u = "file" THEN "local" ELSE "net"]

Want(k, u) == [key |-> k, url |-> u]

\* c1 asks for both tiles, one of them twice; c2, more urgent, asks for the
\* other one, which another process fetches too.
MCRequests == c1 :> {<<Want(a, "remote"), Want(a, "remote"), Want(b, "remote")>>} @@
              c2 :> {<<Want(b, "remote")>>}
\* The lists of the liveness run: two tiles compete for one queue place, and
\* one of them is asked of two sources.
HungRequests == c1 :> {<<Want(a, "remote"), Want(b, "remote")>>} @@
                c2 :> {<<Want(b, "file")>>}
MCPriority == c1 :> 0 @@ c2 :> 1

=============================================================================
