---------------------------- MODULE ConfigProofs ----------------------------
(* The stated priority of the configuration's sources, for any keys, values  *)
(* and any number of places where a file may be.                             *)
EXTENDS Config, WellFoundedInduction, TLAPS

\* Of the places where there is a file one is the first.
LEMMA FirstExists ==
    ASSUME NEW S \in SUBSET Nat, S # {}
    PROVE  \E i \in S : \A j \in S : i <= j
<1>1. PICK i \in S : \A j \in S : <<j, i>> \notin OpToRel(<, Nat)
  BY NatLessThanWellFounded, WFMin, Zenon
<1>2. \A j \in S : ~(j < i)
  BY <1>1 DEF OpToRel
<1> QED
  BY <1>2

\* The value that Load gives a key that an environment variable can reach is
\* the one of the source that comes first.
LEMMA LoadIsPrior ==
    ASSUME NEW source, IsSource(source), Loads(source), NEW k \in Keys \ Underscored
    PROVE  IsPrior(source, k, Load(source)[k])
<1> DEFINE file == ConfigFile(source)
           value == Load(source)[k]
           places == IF source.flag # <<>> THEN source.flag ELSE source.places
           first(i) == places[i] # Absent /\ \A j \in 1..(i - 1) : places[j] = Absent
<1>1. value = IF source.env[k] # Unset THEN source.env[k]
              ELSE IF file[k] # Unset THEN file[k] ELSE Default[k]
  BY DEF Load, Reached, Mentions
<1>2. file # Absent
  BY DEF Loads
<1>3. PICK n \in Nat : DOMAIN source.places = 1..n
  BY DEF IsSource
\* The file that is loaded is the first of all places, and there is none if
\* all of them are empty.
<1>4. \/ \E i \in DOMAIN places : first(i) /\ places[i] = file /\ \A j \in DOMAIN places : first(j) => j = i
      \/ (\A i \in DOMAIN places : ~first(i)) /\ file[k] = Unset
  <2>1. CASE source.flag # <<>>
    <3>1. source.flag = <<Head(source.flag)>> /\ file = Head(source.flag)
      BY <2>1 DEF IsSource, ConfigFile
    <3>2. DOMAIN places = {1} /\ places[1] = file
      BY <2>1, <3>1
    <3> HIDE DEF places, file
    <3>3. first(1)
      BY <1>2, <3>2
    <3>4. \A j \in DOMAIN places : j = 1
      BY <3>2
    <3> QED
      BY <3>2, <3>3, <3>4
  <2>2. CASE source.flag = <<>>
    <3> DEFINE found == {i \in DOMAIN source.places : source.places[i] # Absent}
    <3>1. DOMAIN places = 1..n /\ \A i \in 1..n : places[i] = source.places[i]
      BY <1>3, <2>2
    <3> HIDE DEF places
    <3>2. CASE found = {}
      <4>1. file[k] = Unset
        BY <2>2, <3>2 DEF ConfigFile
      <4>2. \A i \in DOMAIN places : ~first(i)
        BY <1>3, <3>1, <3>2
      <4> QED
        BY <4>1, <4>2
    <3>3. CASE found # {}
      <4> DEFINE m == CHOOSE i \in found : \A j \in found : i <= j
      <4>1. found \in SUBSET Nat
        BY <1>3
      <4>2. m \in found /\ \A j \in found : m <= j
        BY <3>3, <4>1, FirstExists
      <4>3. file = source.places[m]
        BY <2>2, <3>3 DEF ConfigFile
      <4> HIDE DEF m, file
      <4>4. m \in 1..n /\ places[m] = file
        BY <1>3, <3>1, <4>2, <4>3
      <4>5. first(m)
        <5>1. ASSUME NEW j \in 1..(m - 1), places[j] # Absent PROVE FALSE
          <6>1. j \in 1..n /\ j < m
            BY <4>4, <5>1
          <6>2. j \in found
            BY <1>3, <3>1, <5>1, <6>1
          <6> QED
            BY <4>2, <4>4, <6>1, <6>2
        <5> QED
          BY <1>2, <4>4, <5>1
      <4>6. ASSUME NEW j \in DOMAIN places, first(j) PROVE j = m
        <5>1. j \in 1..n /\ j \in found
          BY <1>3, <3>1, <4>6
        <5>2. m <= j
          BY <4>2, <5>1
        <5>3. CASE m < j
          <6>1. m \in 1..(j - 1)
            BY <4>4, <5>1, <5>3
          <6> QED
            BY <1>2, <4>4, <4>6, <6>1
        <5> QED
          BY <4>4, <5>1, <5>2, <5>3
      <4> QED
        BY <3>1, <4>4, <4>5, <4>6
    <3> QED
      BY <3>2, <3>3
  <2> QED
    BY <2>1, <2>2
<1> HIDE DEF value, file, places
<1> QED
  BY <1>1, <1>4 DEF IsPrior, Mentions, value, places
=============================================================================
