----------------------------- MODULE PortOrder -----------------------------
(***************************************************************************)
(* The port list of the connect page (webui2 src/unnamed/part_003, lines   *)
(* 96-117): a pool's ports ordered by ascending varDiff minimum, then by  *)
(* port number, and the default port, the middle one of that list.        *)
(*                                                                         *)
(* A port is its number (the keys of pool.ports are numeric strings); its  *)
(* configuration is reduced to varDiff.minDiff, or NoMin when absent.     *)
(***************************************************************************)
EXTENDS Naturals, FiniteSets, Sequences

CONSTANTS
    NoMin,           \* varDiff or varDiff.minDiff is missing
    MaxSafeInteger   \* Number.MAX_SAFE_INTEGER, above every minDiff

ASSUME PortOrderAssumption ==
    /\ NoMin \notin Nat
    /\ MaxSafeInteger \in Nat

\* getMin (line 100).
GetMin(md, k) == IF md[k] = NoMin THEN MaxSafeInteger ELSE md[k]

\* The comparator of line 101 is negative: da - db < 0, or on equal minima
\* Number(a[0]) - Number(b[0]) < 0. Both differences are exact, since every
\* operand is a safe integer.
Before(md, a, b) ==
    \/ GetMin(md, a) < GetMin(md, b)
    \/ GetMin(md, a) = GetMin(md, b) /\ a < b

\* portEntries (lines 96-107): Object.entries of the ports, sorted. Before
\* orders distinct ports strictly and totally, so entries.sort returns the
\* one arrangement of the ports in which each entry is Before every later one.
PortEntries(ports, md) ==
    LET n == Cardinality(ports)
    IN  CHOOSE e \in [1..n -> ports] :
            \A i, j \in 1..n : i < j => Before(md, e[i], e[j])

\* The default of lines 114-116, for a non-empty port list:
\* portEntries[Math.min(Math.floor(length / 2), length - 1)].
MidPort(ports, md) ==
    LET e == PortEntries(ports, md)
        midIndex == Len(e) \div 2
    IN  e[(IF midIndex < Len(e) - 1 THEN midIndex ELSE Len(e) - 1) + 1]

=============================================================================
