------------------------------ MODULE MCRunner ------------------------------
(* Model-checking instance of Runner.  u1 and u2 share the binary name    *)
(* (versioned directories with the same last segment, as in the           *)
(* repository's test URIs), u2 is republished with new bytes, u3 has no   *)
(* usable last segment, and u4 names a second file.  The environment-    *)
(* fault runs use fewer releases and a single pid.                        *)
EXTENDS Runner

CONSTANTS u1, u2, u3, u4, h1, h2, n1, n2, p1, p2

MCURIs == {u1, u2, u3, u4}
MCNames == {n1, n2}
MCPids == {p1, p2}
MCOnePid == {p1}
MCBinName == [u \in MCURIs |-> CASE u = u1 -> n1 [] u = u2 -> n1 [] u = u3 -> NoName [] u = u4 -> n2]

R1 == [uri |-> u1, hash |-> h1]
R2 == [uri |-> u2, hash |-> h1]
R2b == [uri |-> u2, hash |-> h2]    \* same URI republished with new bytes
R3 == [uri |-> u3, hash |-> h1]
R4 == [uri |-> u4, hash |-> h1]
MCReleases == {R1, R2, R2b, R3, R4}
MCReleasesEnv == {R1, R2, R4}

\* The newer binary is shorter than the older one.
MCPayload == [r \in MCReleases \cup MCReleasesEnv |-> IF r = R1 THEN <<1, 1>> ELSE <<2>>]
\* An error page longer than either binary.
MCErrorBody == <<0, 0, 0>>

MCChainValues == MCReleases \cup {NoRelease}
MCChainValuesEnv == MCReleasesEnv \cup {NoRelease, Garbled}
=============================================================================
