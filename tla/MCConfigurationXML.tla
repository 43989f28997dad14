------------------------- MODULE MCConfigurationXML -------------------------
(***************************************************************************)
(* Model-checking instance of ConfigurationXML: two counter slots, two     *)
(* drivers, and counters that one driver claims (1, 3, 5), that none       *)
(* claims (2) and that both claim (4).  The host may store a configuration *)
(* with more claimed counters than slots, one with fewer, one with an      *)
(* unclaimed counter ahead of a claimed one, one that both drivers claim,  *)
(* and an invalid one.                                                     *)
(***************************************************************************)
EXTENDS ConfigurationXML, TLC

CONSTANTS d1, d2

\* A <counter> element.
C(n, c) == [name |-> n, count |-> c]

MCClaims == (1 :> {d1}) @@ (2 :> {}) @@ (3 :> {d2}) @@ (4 :> {d1, d2}) @@ (5 :> {d2})

\* Three claimed counters for two slots, an unclaimed one among them.
XmlMany == [counters |-> << C(3, 0), C(1, 1), C(2, 1), C(5, 0) >>, spes |-> << 7 >>]
\* An unclaimed counter with a count, ahead of a claimed one without.
XmlUnclaimed == [counters |-> << C(3, 0), C(2, 1) >>, spes |-> << >>]
\* A single counter.
XmlFew == [counters |-> << C(1, 0) >>, spes |-> << >>]
\* A counter both drivers claim.
XmlShared == [counters |-> << C(4, 0) >>, spes |-> << >>]
\* Invalid: the same counter twice, and an <spe> with no id.
XmlDuplicate == [counters |-> << C(5, 0), C(5, 1) >>, spes |-> << >>]
XmlNoSpeId == [counters |-> << C(1, 0) >>, spes |-> << 0 >>]

MCXmls == {XmlMany, XmlUnclaimed, XmlFew, XmlShared, XmlDuplicate, XmlNoSpeId}

MCDefaultXml == [counters |-> << C(5, 1), C(1, 0) >>, spes |-> << >>]

=============================================================================
