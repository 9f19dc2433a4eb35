----------------------------- MODULE RateResolver -----------------------------
(***************************************************************************)
(* rate_resolver.RateResolver: the rates a device is shaped at, taken from *)
(* the first place that names one (address list, comment, rate limit) or   *)
(* from the configured default.                                            *)
(*                                                                         *)
(* A text is the sequence of its tokens: a pair of numbers with units, or  *)
(* Other.  A number counts hundredths, so does a rate in Mbps; the         *)
(* multipliers of settings.json are fractions <<n, d>>.  The comment text  *)
(* and generated ids are left out.                                         *)
(***************************************************************************)
EXTENDS Integers, Sequences

CONSTANTS
  Texts,     \* what the three places may hold
  Defaults,  \* the configured default rates, which may be any text
  MinShare, MaxShare  \* *_RATE_PERCENTAGE

Share(s) == s[1] \in Nat /\ s[2] \in Nat \ {0}
ASSUME ShareConstants == Share(MinShare) /\ Share(MaxShare)

Other == <<>>
Number(x) == x.n \in Nat
ASSUME TextConstants ==
  /\ \A t \in Texts : \A i \in 1..Len(t) : t[i] # Other => Number(t[i][1]) /\ Number(t[i][2])
  /\ Defaults \subseteq Nat

VARIABLES
  places,   \* the texts of the three places, in the order of the chain
  default,
  at,       \* the place that is looked at next
  rates     \* the outcome, Unknown until there is one

vars == <<places, default, at, rates>>

Unknown == [source |-> "none", max |-> 0, min |-> 0]

Least(a, b) == IF a < b THEN a ELSE b
Most(a, b) == IF a > b THEN a ELSE b

----------------------------------------------------------------------------
\* convert_to_mbps: [n, unit] to hundredths of a Mbps, rounded (half to even).
Round(n, d) == LET q == n \div d  r == 2 * (n % d) IN
               IF r > d \/ (r = d /\ q % 2 = 1) THEN q + 1 ELSE q

Mbps(x) == CASE x.unit = "k" -> Round(x.n, 1000)
             [] x.unit = "g" -> x.n * 1000
             [] OTHER        -> x.n

\* parse_rate and is_valid_rate: both rates are there and positive.
IsRate(token) == token # Other /\ Mbps(token[1]) > 0 /\ Mbps(token[2]) > 0

\* extract_first_rate: the i-th token is it.
FirstRate(text, i) == IsRate(text[i]) /\ \A j \in 1 .. i - 1 : ~IsRate(text[j])

MinFloor == 1
MaxFloor == 2
Floor(hundredths, share) == (hundredths * share[1]) \div (100 * share[2])

MaxRate_slip(rate) == Floor(rate, MaxShare)
MaxRate(rate) == Most(Floor(rate, MaxShare), MaxFloor)

MinRate(max) == Least(Most(Floor(100 * max, MinShare), MinFloor), Most(max, MinFloor))

\* resolve_rates, for one direction (both are computed alike)
Resolved(source, rate) ==
  [source |-> source, max |-> MaxRate(rate), min |-> MinRate(MaxRate(rate))]

----------------------------------------------------------------------------
\* resolve_rate_with_fallback

SourceNames == <<"address_list", "comment", "rate_limit">>

Init ==
  /\ places \in [1..3 -> Texts]
  /\ default \in Defaults
  /\ at = 1
  /\ rates = Unknown

Take ==
  /\ rates = Unknown /\ at <= 3
  /\ \E i \in 1..Len(places[at]) :
       /\ FirstRate(places[at], i)
       /\ rates' = Resolved(SourceNames[at], Mbps(places[at][i][1]))
  /\ UNCHANGED <<places, default, at>>

Skip ==
  /\ rates = Unknown /\ at <= 3
  /\ \A i \in 1..Len(places[at]) : ~IsRate(places[at][i])
  /\ at' = at + 1
  /\ UNCHANGED <<places, default, rates>>

\* A default that is no number counts as 0.
TakeDefault ==
  /\ rates = Unknown /\ at = 4
  /\ rates' = Resolved("default", default)
  /\ UNCHANGED <<places, default, at>>

Next == Take \/ Skip \/ TakeDefault
Spec == Init /\ [][Next]_vars

----------------------------------------------------------------------------
TypeOK ==
  /\ places \in [1..3 -> Texts] /\ default \in Defaults /\ at \in 1..4
  /\ rates # Unknown => /\ rates.max \in Nat /\ rates.min \in Nat
                        /\ rates.source \in {"default"} \cup {SourceNames[i] : i \in 1..3}

\* What comes out is a row LibreQoS takes (it rejects a minimum under 1 Mbps and
\* a maximum under 2), with the guaranteed rate within the maximum, whatever the
\* texts, the default and the multipliers are.
RowAccepted ==
  rates # Unknown => /\ rates.max >= 2 /\ rates.min >= 1
                     /\ rates.min <= rates.max
=============================================================================
