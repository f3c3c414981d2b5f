----------------------------- MODULE Filtering -----------------------------
(***************************************************************************)
(* The loop in which stripPFConf (cmd/pf_darwin.go) and                    *)
(* stripLoopbackServers (cmd/dns_snapshot_windows.go) skip what is theirs  *)
(* and append the rest.  It is a recursive function over the position, so  *)
(* that HostProofs can reason about it by induction.                       *)
(***************************************************************************)
EXTENDS Integers, Sequences

\* s without the elements of K, in order: kept[i] is what i rounds of the loop keep.
Without(s, K) ==
    LET kept[i \in 0..Len(s)] ==
            IF i = 0 THEN <<>>
            ELSE IF s[i] \in K THEN kept[i - 1] ELSE Append(kept[i - 1], s[i])
    IN  kept[Len(s)]
=============================================================================
