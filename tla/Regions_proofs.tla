---------------------------- MODULE Regions_proofs ----------------------------
(***************************************************************************)
(* What the tables, the collector and the scripts promise of a region, for *)
(* all lists, keepers, documents and answers of the map service, and for   *)
(* any number of runs, deployments and faults.                             *)
(***************************************************************************)
EXTENDS Regions, Lists_proofs

\* FirstOf finds one of the numbers.
LEMMA FirstIsIn ==
    ASSUME NEW S, S \subseteq Nat, S # {}
    PROVE  FirstOf(S) \in S
BY LeastNat DEF FirstOf

\* A dep has one question or two.
LEMMA QueriesDomain ==
    ASSUME NEW dep \in Deps
    PROVE  DOMAIN Queries(dep) \subseteq Nat
<1>1. dep.paren \in {"none", "branch", "shell"}
    BY PlacesAssumption DEF PlacesAssumption, Dep
<1>2. CASE dep.paren = "none"
    BY <1>2 DEF Queries
<1>3. CASE dep.paren = "shell"
    BY <1>3 DEF Queries
<1>4. CASE dep.paren = "branch"
  <2>1. Queries(dep) = <<"inside">> \/ Queries(dep) = <<"both", "inside">>
      BY <1>4 DEF Queries
  <2>2. DOMAIN <<"inside">> = 1..1 /\ DOMAIN <<"both", "inside">> = 1..2
      OBVIOUS
  <2>3. QED
      BY <2>1, <2>2
<1>5. QED
    BY <1>1, <1>2, <1>3, <1>4

\* A dep is left without a region by the map service only when no answer has a district.
LEMMA LocatedUnknown ==
    ASSUME NEW dep \in Deps, NEW lost, Located(dep, lost) = Unknown
    PROVE  \A n \in DOMAIN Queries(dep) \ lost :
               RegionFromAddress(Kakao[dep][Queries(dep)[n]]) = Unknown
<1> DEFINE at(n) == RegionFromAddress(Kakao[dep][Queries(dep)[n]])
           hits  == {n \in DOMAIN Queries(dep) \ lost : at(n) # Unknown}
<1>1. hits \subseteq Nat
    BY QueriesDomain
<1>2. Located(dep, lost) = IF hits = {} THEN Unknown ELSE at(FirstOf(hits))
    BY DEF Located
<1>3. hits = {}
  <2>1. SUFFICES ASSUME hits # {} PROVE FALSE
      OBVIOUS
  <2>2. FirstOf(hits) \in hits
      BY <1>1, <2>1, FirstIsIn
  <2>3. QED
      BY <1>2, <2>1, <2>2
<1>4. QED
    BY <1>3

(***************************************************************************)
(* The desk: a dep that is kept as unknown to the map service is.          *)
(***************************************************************************)
MissInv == /\ DOMAIN files = {"csv", "geocoded"}
           /\ MissIsReal

LEMMA InitMiss == Init => MissInv
BY DEF Init, MissInv, MissIsReal

LEMMA NextMiss ==
    ASSUME MissInv, [Next]_vars
    PROVE  MissInv'
<1> USE DEF MissInv
<1>1. ASSUME UNCHANGED files PROVE MissInv'
    BY <1>1 DEF MissIsReal
<1>2. ASSUME NEW c \in DOMAIN Csvs, BuildGazetteer(c) PROVE MissInv'
  <2>1. DOMAIN files' = DOMAIN files /\ files'.geocoded = files.geocoded
      BY <1>2 DEF BuildGazetteer
  <2>2. QED
      BY <2>1 DEF MissIsReal
<1>3. ASSUME NEW dep \in Deps, GeoSave(dep) PROVE MissInv'
  <2> DEFINE old == files.geocoded
             new == [k \in DOMAIN old \cup {dep} |-> IF k = dep THEN Located(dep, {}) ELSE old[k]]
  <2>1. DOMAIN files' = DOMAIN files /\ files'.geocoded = new
      BY <1>3 DEF GeoSave, Cached
  <2>2. ASSUME NEW k \in DOMAIN new, new[k] = Unknown
        PROVE  \A n \in DOMAIN Queries(k) : RegionFromAddress(Kakao[k][Queries(k)[n]]) = Unknown
    <3>1. CASE k = dep
      <4>1. Located(dep, {}) = Unknown
          BY <2>2, <3>1
      <4>2. \A n \in DOMAIN Queries(dep) \ {} :
                RegionFromAddress(Kakao[dep][Queries(dep)[n]]) = Unknown
          BY <4>1, LocatedUnknown
      <4>3. QED
          BY <3>1, <4>2
    <3>2. CASE k # dep
        BY <2>2, <3>2 DEF MissIsReal
    <3>3. QED
        BY <3>1, <3>2
  <2> HIDE DEF new
  <2>3. QED
      BY <2>1, <2>2 DEF MissIsReal
<1>4. ASSUME NEW dep \in Deps, GeoError(dep) PROVE MissInv'
    BY <1>1, <1>4 DEF GeoError
<1>5. CASE GeoStart \/ GeoEnd \/ Deploy
    BY <1>1, <1>5 DEF GeoStart, GeoEnd, Deploy
<1>6. CASE DailyStart \/ DailyEnd \/ BackStart \/ BackEnd \/ FillStart \/ FillEnd
    BY <1>1, <1>6 DEF DailyStart, DailyEnd, BackStart, BackEnd, FillStart, FillEnd, desk
<1>7. ASSUME NEW d \in Docs, DailyIndex(d) \/ BackWrite(d) \/ Seed(d) PROVE MissInv'
    BY <1>1, <1>7 DEF DailyIndex, BackWrite, Seed, desk
<1>8. ASSUME NEW dep \in Deps, FillDep(dep) PROVE MissInv'
    BY <1>1, <1>8 DEF FillDep, desk
<1>9. CASE UNCHANGED vars
    BY <1>1, <1>9 DEF vars
<1>10. QED
    BY <1>2, <1>3, <1>4, <1>5, <1>6, <1>7, <1>8, <1>9 DEF Next, Desk, Service

\* What geocode_deps.main keeps as not found was not found: an error of the map service is
\* never taken for an answer, whatever the service says and however runs break off.
THEOREM MissesAreReal == Spec => []MissIsReal
<1>1. MissInv => MissIsReal
    BY DEF MissInv
<1>2. QED
    BY <1>1, InitMiss, NextMiss, PTL DEF Spec

(***************************************************************************)
(* The index: what the backfill has looked at is as the service finds it.  *)
(***************************************************************************)
LiveRegion(d) == RegionWith(live, DepOf[d])

\* What the scroll has shown of a document still holds, or has been put right meanwhile.
ScrollHolds(d) == back # None /\ d \in DOMAIN back => index[d] \in {back[d], LiveRegion(d)}

MendInv ==
    /\ DOMAIN index = Docs /\ seen \subseteq Docs /\ mended \subseteq Docs
    /\ BackfillMends
    /\ \A d \in seen : ScrollHolds(d)

LEMMA InitMend == Init => MendInv
BY DEF Init, MendInv, BackfillMends

\* Others write what the service finds, or documents that leave the histories.
LEMMA WritesKeep ==
    ASSUME MendInv, UNCHANGED <<live, back>>, DOMAIN index' = Docs,
           seen' \subseteq seen, mended' \subseteq mended,
           \A d \in seen' \cup mended' : index'[d] \in {index[d], LiveRegion(d)}
    PROVE  MendInv'
<1>1. \A d \in Docs : LiveRegion(d)' = LiveRegion(d)
    BY DEF LiveRegion, RegionWith
<1>2. BackfillMends'
    BY <1>1 DEF MendInv, BackfillMends, LiveRegion
<1>3. \A d \in seen' : ScrollHolds(d)'
    BY <1>1 DEF MendInv, ScrollHolds
<1>4. QED
    BY <1>2, <1>3 DEF MendInv

\* A bulk request takes the documents it writes out of the histories.
LEMMA FlushKeeps ==
    ASSUME MendInv, UNCHANGED <<live, back>>, NEW lines, NEW taken, Flush(lines, taken)
    PROVE  MendInv'
BY WritesKeep DEF Flush, Disturb, MendInv

LEMMA NextMend ==
    ASSUME MendInv, [Next]_vars
    PROVE  MendInv'
<1> USE DEF MendInv
<1>1. ASSUME UNCHANGED <<live, index, back, history>> PROVE MendInv'
    BY <1>1, WritesKeep DEF history
<1>2. ASSUME NEW c \in DOMAIN Csvs, BuildGazetteer(c) PROVE MendInv'
    BY <1>1, <1>2 DEF BuildGazetteer
<1>3. ASSUME NEW dep \in Deps, GeoSave(dep) \/ GeoError(dep) PROVE MendInv'
    BY <1>1, <1>3 DEF GeoSave, GeoError
<1>4. CASE GeoStart \/ GeoEnd
    BY <1>1, <1>4 DEF GeoStart, GeoEnd
<1>5. CASE Deploy
    BY <1>5 DEF Deploy, BackfillMends
<1>6. CASE DailyStart \/ DailyEnd \/ FillStart
    BY <1>1, <1>6 DEF DailyStart, DailyEnd, FillStart, desk
<1>7. ASSUME NEW d \in Docs, DailyIndex(d) PROVE MendInv'
  <2>1. UNCHANGED <<live, back>> /\ index' = [index EXCEPT ![d] = RegionWith(daily.tables, DepOf[d])]
      BY <1>7 DEF DailyIndex, desk
  <2>2. CASE daily.tables = live
    <3>1. UNCHANGED <<seen, mended>>
        BY <1>7, <2>2 DEF DailyIndex, history
    <3>2. \A o \in Docs : index'[o] \in {index[o], LiveRegion(o)}
        BY <2>1, <2>2 DEF LiveRegion
    <3>3. QED
        BY <2>1, <3>1, <3>2, WritesKeep
  <2>3. CASE daily.tables # live
    <3>1. Disturb({d})
        BY <1>7, <2>3 DEF DailyIndex
    <3>2. QED
        BY <2>1, <3>1, WritesKeep DEF Disturb
  <2>4. QED
      BY <2>2, <2>3
<1>8. ASSUME NEW d \in Docs, Seed(d) PROVE MendInv'
    BY <1>8, WritesKeep DEF Seed, Disturb, desk
<1>9. CASE BackStart
  <2>1. /\ UNCHANGED <<live, index, mended>> /\ seen' = Indexed
        /\ back' = [d \in Indexed |-> index[d]]
      BY <1>9 DEF BackStart, desk
  <2>2. BackfillMends'
      BY <2>1 DEF BackfillMends, RegionWith
  <2>3. \A d \in Indexed : ScrollHolds(d)'
      BY <2>1 DEF ScrollHolds
  <2>4. QED
      BY <2>1, <2>2, <2>3 DEF Indexed
<1>10. ASSUME NEW d \in Docs, BackWrite(d) PROVE MendInv'
  <2>1. /\ back # None /\ d \in DOMAIN back /\ back' = [o \in DOMAIN back \ {d} |-> back[o]]
        /\ UNCHANGED <<live, seen>>
        /\ \/ UpToDate(d) /\ mended' = mended \cup ({d} \cap seen) /\ UNCHANGED index
           \/ index' = [index EXCEPT ![d] = LiveRegion(d)] /\ mended' = mended \cup {d}
           \/ UNCHANGED <<index, mended>>
      BY <1>10 DEF BackWrite, Without, LiveRegion, desk
  <2>2. \A o \in Docs : LiveRegion(o)' = LiveRegion(o)
      BY <2>1 DEF LiveRegion, RegionWith
  <2>3. \A o \in Docs : index'[o] \in {index[o], LiveRegion(o)}
      BY <2>1
  <2>4. ASSUME NEW o \in seen PROVE ScrollHolds(o)'
    <3>1. ScrollHolds(o)
        OBVIOUS
    <3>2. QED
        BY <2>1, <2>2, <2>3, <3>1 DEF ScrollHolds
  <2>5. ASSUME NEW o \in mended' PROVE index'[o] = LiveRegion(o)
    <3>1. CASE o \in mended
        BY <2>3, <3>1 DEF BackfillMends, LiveRegion
    <3>2. CASE o = d /\ index' = [index EXCEPT ![d] = LiveRegion(d)]
        BY <3>2
    <3>3. CASE o = d /\ d \in seen /\ UpToDate(d) /\ UNCHANGED index
        BY <2>1, <3>3 DEF ScrollHolds, UpToDate, LiveRegion
    <3>4. QED
        BY <2>1, <2>5, <3>1, <3>2, <3>3
  <2>6. DOMAIN index' = Docs /\ mended' \subseteq Docs
      BY <2>1
  <2>7. BackfillMends'
      BY <2>2, <2>5, <2>6 DEF BackfillMends, LiveRegion
  <2>8. QED
      BY <2>1, <2>4, <2>6, <2>7
<1>11. CASE BackEnd
  <2>1. UNCHANGED <<live, index, mended>> /\ seen' = {}
      BY <1>11 DEF BackEnd, desk
  <2>2. BackfillMends'
      BY <2>1 DEF BackfillMends, RegionWith
  <2>3. QED
      BY <2>1, <2>2
<1>12. ASSUME NEW dep \in Deps, FillDep(dep) PROVE MendInv'
  <2>1. UNCHANGED <<live, back>> /\ \E lines, taken : Flush(lines, taken)
      BY <1>12 DEF FillDep, desk
  <2>2. QED
      BY <2>1, FlushKeeps
<1>13. CASE FillEnd
  <2>1. /\ UNCHANGED <<live, back>>
        /\ UNCHANGED <<index, history>> \/ \E lines, taken : Flush(lines, taken)
      BY <1>13 DEF FillEnd, desk
  <2>2. QED
      BY <1>1, <2>1, FlushKeeps
<1>14. CASE UNCHANGED vars
    BY <1>1, <1>14 DEF vars, history
<1>15. QED
    BY <1>2, <1>3, <1>4, <1>5, <1>6, <1>7, <1>8, <1>9, <1>10, <1>11, <1>12, <1>13, <1>14
    DEF Next, Desk, Service

\* THEOREM: what the backfill has looked at has the region the service finds, although it looks
\* at what it has read before and the collector writes beside it, until a deployment or someone
\* with other tables intervenes (backfill_region.main).
THEOREM BackfillsMend == Spec => []BackfillMends
<1>1. MendInv => BackfillMends
    BY DEF MendInv
<1>2. QED
    BY <1>1, InitMend, NextMend, PTL DEF Spec

(***************************************************************************)
(* The words of regions.                                                   *)
(***************************************************************************)
\* The core of a word is its stem, with the ending only after a single letter.
LEMMA SameCore ==
    ASSUME NEW t \in Token, NEW u \in Token
    PROVE  Core(t) = Core(u) <=> SamePlace(t, u)
<1>1. /\ t = [stem |-> t.stem, tail |-> t.tail] /\ u = [stem |-> u.stem, tail |-> u.tail]
      /\ t.stem \in Stems /\ u.stem \in Stems
    BY DEF Token
<1>2. /\ t.tail = "sido" => Letters[t.stem] >= 2
      /\ u.tail = "sido" => Letters[u.stem] >= 2
    BY PlacesAssumption DEF PlacesAssumption, Token
<1>3. /\ Core(t) = [stem |-> t.stem, tail |-> IF Letters[t.stem] >= 2 THEN "" ELSE t.tail]
      /\ Core(u) = [stem |-> u.stem, tail |-> IF Letters[u.stem] >= 2 THEN "" ELSE u.tail]
    BY <1>1, <1>2 DEF Core
<1> DEFINE tail(v) == IF Letters[v.stem] >= 2 THEN "" ELSE v.tail
<1>4. Core(t) = [stem |-> t.stem, tail |-> tail(t)] /\ Core(u) = [stem |-> u.stem, tail |-> tail(u)]
    BY <1>3
<1>5. t.stem = u.stem /\ tail(t) = tail(u) <=> SamePlace(t, u)
    BY DEF SamePlace
<1>6. /\ Core(t).stem = t.stem /\ Core(t).tail = tail(t)
      /\ Core(u).stem = u.stem /\ Core(u).tail = tail(u)
  <2> HIDE DEF tail
  <2>1. QED
      BY <1>4
<1> HIDE DEF tail
<1>7. QED
    BY <1>4, <1>5, <1>6

\* Every word with the name of a province counts as one.
LEMMA ProvinceCore ==
    ASSUME NEW t \in Token
    PROVE  (Core(t).tail = "" /\ Core(t).stem \in Provinces) <=> t.stem \in Provinces
<1>1. t.stem \in Provinces => Letters[t.stem] >= 2
    BY PlacesAssumption DEF PlacesAssumption
<1>2. t = [stem |-> t.stem, tail |-> t.tail]
    BY DEF Token
<1>3. QED
    BY <1>1, <1>2 DEF Core

\* What a region names is told by the cores of its words.
LEMMA NamesIsCore ==
    ASSUME NEW region \in Seq(Token), NEW t \in Token
    PROVE  Core(t) \in Cores(region) <=> Names(region, t)
<1>1. \A u \in ToSet(region) : u \in Token
    BY ElementOfSeq, LenProperties DEF ToSet
<1>2. \A u \in ToSet(region) : Core(t) = Core(u) <=> SamePlace(u, t)
  <2>1. \A u \in ToSet(region) : Core(u) = Core(t) <=> SamePlace(u, t)
      BY <1>1, SameCore
  <2>2. QED
      BY <2>1
<1>3. \A u : SamePlace(u, t) <=> SamePlace(t, u)
    BY DEF SamePlace
<1>4. QED
    BY <1>2, <1>3 DEF Cores, Names

LEMMA HasSidoIs ==
    ASSUME NEW region \in Seq(Token)
    PROVE  HasSido(region) <=> \E t \in ToSet(region) : t.stem \in Provinces
<1>1. \A t \in ToSet(region) : t \in Token
    BY ElementOfSeq, LenProperties DEF ToSet
<1>2. \A t \in ToSet(region) :
          (Core(t).tail = "" /\ Core(t).stem \in Provinces) <=> t.stem \in Provinces
    BY <1>1, ProvinceCore
<1>3. HasSido(region) <=>
          \E t \in ToSet(region) : Core(t).tail = "" /\ Core(t).stem \in Provinces
    BY DEF HasSido, Cores
<1>4. QED
    BY <1>2, <1>3

\* What region_matches decides, for a region of any words.
Deserved(region, w) ==
    LET province == \E t \in ToSet(region) : IsProvince(t)
    IN  Homonym(region) \/
        (Matches(region, {w}) <=> /\ Names(region, Last(w))
                                  /\ (Len(w) > 1 /\ province) => Names(region, w[1]))

LEMMA MatchIsDeserved ==
    ASSUME NEW region \in Seq(Token), NEW w \in Seq(Token) \ {<<>>}
    PROVE  Deserved(region, w)
<1> DEFINE province == \E t \in ToSet(region) : IsProvince(t)
<1>1. Len(w) \in Nat /\ Len(w) # 0 /\ w[1] \in Token /\ w[Len(w)] \in Token
    BY LenProperties, EmptySeq, ElementOfSeq
<1>2. Last(w) = w[Len(w)]
    BY DEF Last
<1>3. /\ Core(w[1]) \in Cores(region) <=> Names(region, w[1])
      /\ Core(Last(w)) \in Cores(region) <=> Names(region, Last(w))
    BY <1>1, <1>2, NamesIsCore
<1>4. CASE Homonym(region)
    BY <1>4 DEF Deserved
<1>5. CASE ~Homonym(region)
  <2>1. HasSido(region) <=> province
    <3>1. province => \E t \in ToSet(region) : t.stem \in Provinces
        BY DEF IsProvince
    <3>2. QED
        BY <1>5, <3>1, HasSidoIs DEF Homonym
  <2> HIDE DEF province
  <2>2. MatchesOne(region, w) <=> /\ Names(region, Last(w))
                                  /\ (Len(w) > 1 /\ province) => Names(region, w[1])
      BY <1>1, <1>2, <1>3, <2>1 DEF MatchesOne
  <2>3. region = Unknown => ~Names(region, Last(w))
      BY DEF Names, ToSet, Unknown
  <2>4. Matches(region, {w}) <=> region # Unknown /\ MatchesOne(region, w)
      BY <1>1 DEF Matches, Unknown
  <2>5. QED
      BY <2>2, <2>3, <2>4 DEF Deserved, province
<1>6. QED
    BY <1>4, <1>5

(***************************************************************************)
(* The tables: every region they give is a list of words.                  *)
(***************************************************************************)
LEMMA LastIsIn ==
    ASSUME NEW N \in Nat, NEW S, S \subseteq 1..N, S # {}
    PROVE  LastOf(S) \in S
BY LastPlace DEF LastOf

\* A front part of an address, and its words from the second on.
LEMMA PartTyped ==
    ASSUME NEW addr \in Seq(Token), NEW m \in 1..2, NEW n \in 1..3, n <= Len(addr)
    PROVE  SubSeq(addr, m, n) \in Seq(Token)
<1>1. Len(addr) \in Nat /\ \A i \in m..n : addr[i] \in Token
    BY LenProperties, ElementOfSeq
<1>2. QED
    BY <1>1, SubSeqProperties

LEMMA ParseTyped ==
    ASSUME NEW addr \in Seq(Token)
    PROVE  ParseRegion(addr) \in Seq(Token)
<1>1. Len(addr) \in Nat
    BY LenProperties
<1>2. CASE Len(addr) < 2
    BY <1>2 DEF ParseRegion
<1>3. CASE ~(Len(addr) < 2)
  <2>1. PICK n \in 2..3 : n <= Len(addr) /\ ParseRegion(addr) = SubSeq(addr, 1, n)
      BY <1>1, <1>3 DEF ParseRegion, CityWithWard
  <2>2. 1 \in 1..2 /\ n \in 1..3
      OBVIOUS
  <2>3. QED
      BY <2>1, <2>2, PartTyped
<1>4. QED
    BY <1>2, <1>3

LEMMA NormTyped ==
    ASSUME NEW t \in Token
    PROVE  Norm(t) \in Token
BY DEF Norm, Token, Tails

LEMMA AddressTyped ==
    ASSUME NEW addr \in Seq(Token)
    PROVE  RegionFromAddress(addr) \in Seq(Token)
<1>1. Len(addr) \in Nat
    BY LenProperties
<1>2. CASE Len(addr) < 2
    BY <1>2 DEF RegionFromAddress, Unknown
<1>3. CASE ~(Len(addr) < 2)
  <2>1. PICK n \in 1..3 : /\ n <= Len(addr)
                          /\ RegionFromAddress(addr) = <<Norm(addr[1])>> \o SubSeq(addr, 2, n)
      BY <1>1, <1>3 DEF RegionFromAddress, CityWithWard
  <2>2. SubSeq(addr, 2, n) \in Seq(Token)
      BY <2>1, PartTyped
  <2>3. addr[1] \in Token
      BY <1>1, <1>3, ElementOfSeq
  <2>4. <<Norm(addr[1])>> \in Seq(Token)
      BY <2>3, NormTyped
  <2>5. QED
      BY <2>1, <2>2, <2>4, ConcatProperties
<1>4. QED
    BY <1>2, <1>3

\* The map service is asked what it has been modelled for.
LEMMA QuestionsTyped ==
    ASSUME NEW dep \in Deps, NEW n \in DOMAIN Queries(dep)
    PROVE  Queries(dep)[n] \in Questions
<1>1. dep.paren \in {"none", "branch", "shell"}
    BY PlacesAssumption DEF PlacesAssumption, Dep
<1>2. Queries(dep) \in {<<"whole">>, <<"bare">>, <<"inside">>, <<"both", "inside">>}
    BY <1>1 DEF Queries
<1>3. {"whole", "bare", "both", "inside"} = Questions
    BY DEF Questions
<1>4. /\ <<"whole">> \in Seq(Questions) /\ <<"bare">> \in Seq(Questions)
      /\ <<"inside">> \in Seq(Questions) /\ <<"both", "inside">> \in Seq(Questions)
    BY <1>3
<1>5. Queries(dep) \in Seq(Questions)
    BY <1>2, <1>4
<1>6. QED
    BY <1>5, LenProperties, ElementOfSeq

\* Whatever questions get no answer.
LEMMA LocatedTyped ==
    ASSUME NEW dep \in Deps, NEW lost
    PROVE  Located(dep, lost) \in Seq(Token)
<1> DEFINE at(n) == RegionFromAddress(Kakao[dep][Queries(dep)[n]])
           hits  == {n \in DOMAIN Queries(dep) \ lost : at(n) # Unknown}
<1>1. hits \subseteq Nat
    BY QueriesDomain
<1>2. Located(dep, lost) = IF hits = {} THEN Unknown ELSE at(FirstOf(hits))
    BY DEF Located
<1>3. CASE hits = {}
    BY <1>2, <1>3 DEF Unknown
<1>4. CASE hits # {}
  <2>1. FirstOf(hits) \in DOMAIN Queries(dep)
      BY <1>1, <1>4, FirstIsIn
  <2>2. PICK n \in DOMAIN Queries(dep) : n = FirstOf(hits)
      BY <2>1
  <2>3. Queries(dep)[n] \in Questions
      BY QuestionsTyped
  <2>4. Kakao[dep][Queries(dep)[n]] \in Seq(Token)
      BY <2>3, RegionsAssumption DEF RegionsAssumption
  <2>5. at(n) \in Seq(Token)
      BY <2>4, AddressTyped
  <2>6. QED
      BY <1>2, <1>4, <2>2, <2>5
<1>5. QED
    BY <1>3, <1>4

\* The rows the gazetteer is made of.
Usable == {r \in Row : r.addr # <<>>}

LEMMA KeptTyped ==
    ASSUME NEW csv \in Seq(Row)
    PROVE  Kept(csv) \in Seq(Usable)
<1> DEFINE T == {r \in ToSet(csv) : r.name # "" /\ r.addr # <<>>}
<1>1. Kept(csv) \in Seq(Row \cap T)
    BY AmongIs DEF Kept
<1>2. Row \cap T \subseteq Usable
    BY DEF Usable
<1> HIDE DEF T
<1>3. QED
    BY <1>1, <1>2, SeqMonotonic

\* The region of each row.
LEMMA RowTyped ==
    ASSUME NEW rows \in Seq(Usable), NEW n \in DOMAIN rows
    PROVE  /\ n \in 1..Len(rows) /\ Len(rows) \in Nat /\ rows[n] \in Usable
           /\ ParseRegion(rows[n].addr) \in Seq(Token)
<1>1. n \in 1..Len(rows) /\ Len(rows) \in Nat /\ rows[n] \in Usable
    BY LenProperties, ElementOfSeq
<1>2. rows[n].addr \in Seq(Token)
    BY <1>1 DEF Usable, Row
<1>3. QED
    BY <1>1, <1>2, ParseTyped

LEMMA StationsTyped ==
    ASSUME NEW rows \in Seq(Usable), NEW key \in DOMAIN StationsOf(rows)
    PROVE  StationsOf(rows)[key] \in Seq(Token)
<1> DEFINE own == {n \in DOMAIN rows : rows[n].name = key[1] /\ key[2] \in {rows[n].kind, ""}}
           keys == UNION {{<<rows[n].name, k>> : k \in {rows[n].kind, ""}} : n \in DOMAIN rows}
<1>1. /\ DOMAIN StationsOf(rows) = keys
      /\ StationsOf(rows)[key] = ParseRegion(rows[LastOf(own)].addr)
    BY DEF StationsOf, RowsWith
<1>2. PICK n \in DOMAIN rows : \E k \in {rows[n].kind, ""} : key = <<rows[n].name, k>>
    BY <1>1
<1>3. n \in own
  <2>1. PICK k \in {rows[n].kind, ""} : key = <<rows[n].name, k>>
      BY <1>2
  <2>2. key[1] = rows[n].name /\ key[2] = k
      BY <2>1
  <2>3. QED
      BY <2>2
<1>4. own \subseteq 1..Len(rows) /\ Len(rows) \in Nat
    BY LenProperties
<1> HIDE DEF own
<1>5. LastOf(own) \in own
    BY <1>3, <1>4, LastIsIn
<1>6. PICK m \in DOMAIN rows : m = LastOf(own)
    BY <1>5 DEF own
<1>7. QED
    BY <1>1, <1>6, RowTyped

\* Of the regions of a list one comes most often.
LEMMA ModalTyped ==
    ASSUME NEW X, NEW regions \in Seq(X), regions # <<>>
    PROVE  Modal(regions) \in X
<1> DEFINE N == Len(regions)
           count(n) == Cardinality({m \in DOMAIN regions : regions[m] = regions[n]})
           most == {n \in DOMAIN regions : \A m \in DOMAIN regions : count(m) <= count(n)}
           counts == {count(n) : n \in DOMAIN regions}
<1>1. N \in Nat /\ N # 0 /\ DOMAIN regions = 1..N /\ \A n \in 1..N : regions[n] \in X
    BY LenProperties, EmptySeq, ElementOfSeq
<1>2. \A n \in DOMAIN regions : count(n) \in 1..N
  <2> TAKE n \in DOMAIN regions
  <2> DEFINE same == {m \in DOMAIN regions : regions[m] = regions[n]}
  <2>1. same \in SUBSET (1..N) /\ same # {}
      BY <1>1
  <2>2. IsFiniteSet(1..N) /\ Cardinality(1..N) = N
      BY <1>1, FS_Interval
  <2> HIDE DEF same
  <2>3. IsFiniteSet(same) /\ Cardinality(same) <= N
      BY <2>1, <2>2, FS_Subset
  <2>4. Cardinality(same) \in Nat /\ Cardinality(same) # 0
      BY <2>1, <2>3, FS_CardinalityType, FS_EmptySet
  <2>5. QED
      BY <1>1, <2>3, <2>4 DEF same
<1> HIDE DEF count
<1>3. counts \subseteq 1..N /\ counts # {}
  <2>1. 1 \in DOMAIN regions
      BY <1>1
  <2>2. count(1) \in counts
      BY <2>1
  <2>3. \A x \in counts : x \in 1..N
      BY <1>2
  <2>4. QED
      BY <2>2, <2>3
<1>4. PICK c \in counts : \A d \in counts : d <= c
  <2> HIDE DEF counts
  <2>1. QED
      BY <1>1, <1>3, LastPlace
<1>5. PICK n \in DOMAIN regions : c = count(n)
    BY <1>4
<1>6. n \in most
    BY <1>4, <1>5
<1>7. most \subseteq 1..N
    BY <1>1
<1>8. FirstOf(most) \in most
  <2> HIDE DEF most
  <2>1. QED
      BY <1>6, <1>7, FirstIsIn
<1>9. Modal(regions) = regions[FirstOf(most)]
    BY DEF Modal, most, count
<1>10. QED
    BY <1>1, <1>7, <1>8, <1>9

LEMMA PoliceTyped ==
    ASSUME NEW rows \in Seq(Usable), NEW st \in DOMAIN PoliceOf(rows)
    PROVE  PoliceOf(rows)[st] \in Seq(Token)
<1> DEFINE own == Among(rows, {r \in ToSet(rows) : r.station = st})
           regions == [n \in DOMAIN own |-> ParseRegion(own[n].addr)]
<1>1. PoliceOf(rows)[st] = Modal(regions)
    BY DEF PoliceOf
<1>2. PICK n \in DOMAIN rows : rows[n].station = st
    BY DEF PoliceOf
<1>3. own \in Seq(Usable)
    BY AmongIs
<1>4. own # <<>>
  <2>1. n \in 1..Len(rows) /\ Len(rows) \in Nat
      BY RowTyped
  <2>2. Times(rows, rows[n]) # 0
      BY <2>1, SpotsFinite DEF Times
  <2>3. Times(own, rows[n]) = Times(rows, rows[n])
    <3>1. rows[n] \in {r \in ToSet(rows) : r.station = st}
        BY <1>2 DEF ToSet
    <3>2. QED
        BY <3>1, AmongIs
  <2>4. QED
      BY <2>2, <2>3, TimesEmpty
<1> HIDE DEF own
<1>5. regions \in Seq(Seq(Token)) /\ regions # <<>>
  <2>1. DOMAIN own = 1..Len(own) /\ Len(own) \in Nat /\ Len(own) # 0
      BY <1>3, <1>4, LenProperties, EmptySeq
  <2>2. \A m \in DOMAIN own : ParseRegion(own[m].addr) \in Seq(Token)
      BY <1>3, RowTyped
  <2>3. regions \in [1..Len(own) -> Seq(Token)]
      BY <2>1, <2>2
  <2>4. regions \in Seq(Seq(Token)) /\ Len(regions) = Len(own)
      BY <2>1, <2>3, SeqDef, LenProperties
  <2>5. QED
      BY <2>1, <2>4, EmptySeq
<1> HIDE DEF regions
<1>6. QED
    BY <1>1, <1>5, ModalTyped

\* The words of an address that name districts.
LEMMA DistrictsTyped ==
    ASSUME NEW row \in Usable, NEW t \in DistrictsIn(row)
    PROVE  t \in Token
<1>1. row.addr \in Seq(Token) /\ row.addr # <<>>
    BY DEF Usable, Row
<1>2. PICK region \in Seq(Token) : region = ParseRegion(row.addr)
    BY <1>1, ParseTyped
<1>3. region # <<>>
  <2>1. PICK addr \in Seq(Token) : addr = row.addr /\ addr # <<>>
      BY <1>1
  <2>2. CASE Len(addr) < 2
      BY <1>2, <2>1, <2>2 DEF ParseRegion
  <2>3. CASE ~(Len(addr) < 2)
    <3>1. Len(addr) \in Nat /\ \A i \in 1..Len(addr) : addr[i] \in Token
        BY LenProperties, ElementOfSeq
    <3>2. PICK n \in 2..3 : n <= Len(addr) /\ region = SubSeq(addr, 1, n)
        BY <1>2, <2>1, <2>3, <3>1 DEF ParseRegion, CityWithWard
    <3>3. Len(SubSeq(addr, 1, n)) = n
      <4>1. \A i \in 1..n : addr[i] \in Token
          BY <3>1, <3>2
      <4>2. Len(SubSeq(addr, 1, n)) = IF 1 <= n THEN n - 1 + 1 ELSE 0
          BY <4>1, SubSeqProperties
      <4>3. QED
          BY <4>2
    <3>4. QED
        BY <3>2, <3>3, EmptySeq
  <2>4. QED
      BY <2>2, <2>3
<1>4. Tail(region) \in Seq(Token)
    BY <1>3, HeadTailProperties
<1>5. t \in ToSet(Tail(region))
    BY <1>2 DEF DistrictsIn
<1>6. QED
    BY <1>4, <1>5, LenProperties, ElementOfSeq DEF ToSet

LEMMA TokensTyped ==
    ASSUME NEW rows \in Seq(Usable)
    PROVE  TokensOf(rows) \subseteq Token
BY RowTyped, DistrictsTyped DEF TokensOf

LEMMA NamesTyped ==
    ASSUME NEW rows \in Seq(Usable), NEW s \in DOMAIN NamesOf(rows)
    PROVE  NamesOf(rows)[s] \in Seq(Token)
<1> DEFINE with == {n \in DOMAIN rows : \E t \in DistrictsIn(rows[n]) : t.stem = s}
           short == {t.stem : t \in {u \in TokensOf(rows) : Letters[u.stem] >= 2}}
           province == [stem |-> s, tail |-> "sido"]
<1>1. /\ DOMAIN NamesOf(rows) = short \cup Metros
      /\ NamesOf(rows)[s] = IF s \in short THEN ParseRegion(rows[FirstOf(with)].addr)
                            ELSE <<province>>
    BY DEF NamesOf, RowsWith
<1>2. CASE s \in short
  <2>1. PICK n \in DOMAIN rows : \E t \in DistrictsIn(rows[n]) : t.stem = s
      BY <1>2 DEF TokensOf
  <2>2. n \in with
      BY <2>1
  <2>3. with \subseteq Nat
      BY LenProperties
  <2> HIDE DEF with
  <2>4. FirstOf(with) \in with
      BY <2>2, <2>3, FirstIsIn
  <2>5. PICK m \in DOMAIN rows : m = FirstOf(with)
      BY <2>4 DEF with
  <2>6. QED
      BY <1>1, <1>2, <2>5, RowTyped
<1>3. CASE s \notin short
  <2>1. s \in Provinces /\ s \in Stems
      BY <1>1, <1>3, PlacesAssumption DEF PlacesAssumption
  <2>2. province \in Token
      BY <2>1 DEF Token, Tails
  <2> HIDE DEF province
  <2>3. QED
      BY <1>1, <1>3, <2>2
<1>4. QED
    BY <1>2, <1>3

\* What the gazetteer says of a dep.
LEMMA InGazetteerTyped ==
    ASSUME NEW c \in DOMAIN Csvs, NEW dep \in Deps
    PROVE  InGazetteer(Gazetteer[c], dep) \in Seq(Token)
<1>1. PICK rows \in Seq(Usable) : rows = Kept(Csvs[c])
  <2>1. Csvs[c] \in Seq(Row)
      BY RegionsAssumption, LenProperties, ElementOfSeq DEF RegionsAssumption
  <2>2. QED
      BY <2>1, KeptTyped
<1>2. PICK gaz : /\ gaz = Gazetteer[c]
                 /\ gaz.stations = StationsOf(rows) /\ gaz.police = PoliceOf(rows)
                 /\ gaz.tokens = TokensOf(rows) /\ gaz.names = NamesOf(rows)
  <2>1. Gazetteer[c] = [stations |-> StationsOf(rows), police |-> PoliceOf(rows),
                        tokens |-> TokensOf(rows), names |-> NamesOf(rows)]
      BY <1>1 DEF Gazetteer, Build
  <2>2. QED
      BY <2>1
<1>3. /\ \A key \in DOMAIN gaz.stations : gaz.stations[key] \in Seq(Token)
      /\ \A st \in DOMAIN gaz.police : gaz.police[st] \in Seq(Token)
      /\ gaz.tokens \subseteq Token
      /\ \A s \in DOMAIN gaz.names : gaz.names[s] \in Seq(Token)
    BY <1>2, StationsTyped, PoliceTyped, TokensTyped, NamesTyped
<1>a. SUFFICES InGazetteer(gaz, dep) \in Seq(Token)
    BY <1>2
<1>4. CASE <<dep.name, dep.kind>> \in DOMAIN gaz.stations
    BY <1>3, <1>4 DEF InGazetteer
<1>5. CASE <<dep.name, dep.kind>> \notin DOMAIN gaz.stations
  <2>1. \/ InGazetteer(gaz, dep) = gaz.police[dep.name] /\ dep.name \in DOMAIN gaz.police
        \/ InGazetteer(gaz, dep) = gaz.stations[<<dep.name, "">>] /\ <<dep.name, "">> \in DOMAIN gaz.stations
        \/ /\ HeldTokens(gaz, dep) # {}
           /\ InGazetteer(gaz, dep) = <<CHOOSE t \in HeldTokens(gaz, dep) : TRUE>>
        \/ /\ HeldNames(gaz, dep) # {}
           /\ InGazetteer(gaz, dep) = gaz.names[CHOOSE s \in HeldNames(gaz, dep) : TRUE]
        \/ InGazetteer(gaz, dep) = Unknown
    <3> DEFINE otherwise == IF HeldTokens(gaz, dep) # {}
                            THEN <<CHOOSE t \in HeldTokens(gaz, dep) : TRUE>>
                            ELSE IF HeldNames(gaz, dep) # {}
                            THEN gaz.names[CHOOSE s \in HeldNames(gaz, dep) : TRUE]
                            ELSE Unknown
    <3>1. \/ InGazetteer(gaz, dep) = gaz.police[dep.name] /\ dep.name \in DOMAIN gaz.police
          \/ /\ InGazetteer(gaz, dep) = gaz.stations[<<dep.name, "">>]
             /\ <<dep.name, "">> \in DOMAIN gaz.stations
          \/ InGazetteer(gaz, dep) = otherwise
      <4>1. dep.kind = "police" => dep.kind \notin BoxKinds
          BY DEF BoxKinds
      <4> HIDE DEF otherwise
      <4>2. QED
          BY <1>5, <4>1 DEF InGazetteer, otherwise
    <3>2. QED
        BY <3>1
  <2>2. HeldTokens(gaz, dep) # {} => (CHOOSE t \in HeldTokens(gaz, dep) : TRUE) \in Token
      BY <1>3 DEF HeldTokens
  <2>3. HeldNames(gaz, dep) # {} => (CHOOSE s \in HeldNames(gaz, dep) : TRUE) \in DOMAIN gaz.names
      BY DEF HeldNames
  <2>4. \A t \in Token : <<t>> \in Seq(Token)
      OBVIOUS
  <2>5. Unknown \in Seq(Token)
      BY DEF Unknown
  <2>6. QED
      BY <1>3, <2>1, <2>2, <2>3, <2>4, <2>5
<1>6. QED
    BY <1>4, <1>5

(***************************************************************************)
(* The bonus                                                               *)
(***************************************************************************)
\* The service always has tables.
TablesInv == /\ files.csv \in DOMAIN Csvs /\ DOMAIN files = {"csv", "geocoded"}
             /\ live.csv \in DOMAIN Csvs

\* The tables of geocode_deps have regions only, on the desk and in the image.
PlacedInv ==
    /\ TablesInv
    /\ \A dep \in DOMAIN files.geocoded : files.geocoded[dep] \in Seq(Token)
    /\ \A dep \in DOMAIN live.geocoded : live.geocoded[dep] \in Seq(Token)

LEMMA InitPlaced == Init => PlacedInv
<1> SUFFICES ASSUME Init PROVE PlacedInv
    OBVIOUS
<1>1. 1 \in DOMAIN Csvs
    BY RegionsAssumption, LenProperties, EmptySeq DEF RegionsAssumption
<1>2. DOMAIN <<>> = {}
    OBVIOUS
<1>3. QED
    BY <1>1, <1>2 DEF Init, PlacedInv, TablesInv

LEMMA NextPlaced ==
    ASSUME PlacedInv, [Next]_vars
    PROVE  PlacedInv'
<1> USE DEF PlacedInv, TablesInv
<1>1. ASSUME UNCHANGED <<files, live>> PROVE PlacedInv'
    BY <1>1
<1>2. ASSUME NEW c \in DOMAIN Csvs, BuildGazetteer(c) PROVE PlacedInv'
    BY <1>2 DEF BuildGazetteer
<1>3. ASSUME NEW dep \in Deps, GeoSave(dep) PROVE PlacedInv'
  <2> DEFINE old == files.geocoded
             new == [k \in DOMAIN old \cup {dep} |-> IF k = dep THEN Located(dep, {}) ELSE old[k]]
  <2>1. /\ DOMAIN files' = DOMAIN files /\ files'.geocoded = new /\ files'.csv = files.csv
        /\ UNCHANGED live
      BY <1>3 DEF GeoSave, Cached
  <2>2. \A k \in DOMAIN new : new[k] \in Seq(Token)
      BY LocatedTyped
  <2> HIDE DEF new
  <2>3. QED
      BY <2>1, <2>2
<1>4. CASE Deploy
    BY <1>4 DEF Deploy
<1>5. ASSUME NEW dep \in Deps, GeoError(dep) PROVE PlacedInv'
    BY <1>1, <1>5 DEF GeoError
<1>6. CASE GeoStart \/ GeoEnd
    BY <1>1, <1>6 DEF GeoStart, GeoEnd
<1>7. CASE DailyStart \/ DailyEnd \/ BackStart \/ BackEnd \/ FillStart \/ FillEnd
    BY <1>1, <1>7 DEF DailyStart, DailyEnd, BackStart, BackEnd, FillStart, FillEnd, desk
<1>8. ASSUME NEW d \in Docs, DailyIndex(d) \/ BackWrite(d) \/ Seed(d) PROVE PlacedInv'
    BY <1>1, <1>8 DEF DailyIndex, BackWrite, Seed, desk
<1>9. ASSUME NEW dep \in Deps, FillDep(dep) PROVE PlacedInv'
    BY <1>1, <1>9 DEF FillDep, desk
<1>10. CASE UNCHANGED vars
    BY <1>1, <1>10 DEF vars
<1>11. QED
    BY <1>2, <1>3, <1>4, <1>5, <1>6, <1>7, <1>8, <1>9, <1>10 DEF Next, Desk, Service

\* Whatever the tables have become, region_matches gives the bonus to the regions that name the
\* district asked for and no other province, and to them alone, districts apart that have the
\* name of a province and stand without their own.
THEOREM BonusesAreDeserved == Spec => []BonusIsDeserved
<1>1. ASSUME PlacedInv PROVE BonusIsDeserved
  <2>1. ASSUME NEW dep \in Deps, NEW w \in Wanted PROVE Deserved(RegionWith(live, dep), w)
    <3>1. InGazetteer(Gazetteer[live.csv], dep) \in Seq(Token)
        BY <1>1, InGazetteerTyped DEF PlacedInv, TablesInv
    <3>2. RegionWith(live, dep) \in Seq(Token)
      <4>1. Unknown \in Seq(Token)
          BY DEF Unknown
      <4>2. QED
          BY <1>1, <3>1, <4>1 DEF PlacedInv, RegionWith, Resolve
    <3>3. w \in Seq(Token) \ {<<>>}
        BY RegionsAssumption DEF RegionsAssumption
    <3>4. QED
        BY <3>2, <3>3, MatchIsDeserved
  <2>2. QED
      BY <2>1 DEF BonusIsDeserved, Deserved
<1>2. QED
    BY <1>1, InitPlaced, NextPlaced, PTL DEF Spec
===============================================================================
