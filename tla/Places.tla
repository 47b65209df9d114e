-------------------------------- MODULE Places --------------------------------
(***************************************************************************)
(* The names of places.  A found item says which police box, shop or       *)
(* station keeps it; the service turns that into a region, a province and  *)
(* its districts, with tables that eval/build_gazetteer.py makes from the  *)
(* addresses of the police and eval/geocode_deps.py from a map service.    *)
(* apps/api/region.py reads the tables and decides whether a region is one *)
(* of those a report asks for.                                             *)
(*                                                                         *)
(* A word of an address is a stem and what it ends in: 'Seoul-teukbyeolsi' *)
(* is <seoul, sido>, 'Jung-gu' is <jung, gu>, an island like 'Ganghwa-do'  *)
(* is <ganghwa, do>, and a short name has no ending.  A region is a        *)
(* sequence of words.                                                      *)
(***************************************************************************)
EXTENDS Lists, SequencesExt

CONSTANTS
    Letters,       \* Letters[s]: the letters of stem s
    Provinces,     \* _SIDO_SHORT: the stems that are short names of provinces
    Metros,        \* SIDO_SHORT: those of them the gazetteer knows by their short name
    Deps           \* places that keep items, as found items name them

Tails == {"sido", "si", "gun", "gu", "do", ""}

Stems == DOMAIN Letters

\* The long names of provinces are those of _SIDO.
Token == {t \in [stem : Stems, tail : Tails] : t.tail = "sido" => t.stem \in Provinces}

Districts == {"si", "gun", "gu"}

BoxKinds == {"jigudae", "pachulso", "chian", "chuljang"}

(***************************************************************************)
(* name and kind are the two parts of a dep that the tables look at, holds *)
(* the words it contains, paren what is written in its brackets: nothing,  *)
(* a branch, or an empty form like '(Inc)'.                                *)
(***************************************************************************)
Dep == [name : STRING, kind : BoxKinds \cup {"police", ""},
        holds : SUBSET Token, paren : {"none", "branch", "shell"}]

ASSUME PlacesAssumption ==
    /\ Letters \in [Stems -> Nat \ {0}]
    /\ Metros \subseteq Provinces /\ Provinces \subseteq Stems
    /\ \A p \in Provinces : Letters[p] >= 2
    /\ Deps \subseteq Dep

Unknown == <<>>

(***************************************************************************)
(* Is a region one of those a report asks for?                             *)
(***************************************************************************)
\* Variant: a district of one letter loses its ending, as in substring times.
CoreShort(t) == [t EXCEPT !.tail = ""]

\* _core: an ending comes off unless a single letter would be left.
Core(t) == IF t.tail = "sido" \/ Letters[t.stem] >= 2 THEN [t EXCEPT !.tail = ""] ELSE t

Cores(region) == {Core(t) : t \in ToSet(region)}

\* A word that reads like a province, whatever it is.
HasSido(region) == \E c \in Cores(region) : c.tail = "" /\ c.stem \in Provinces

MatchesOne(region, wanted) ==
    IF Len(wanted) = 1 THEN Core(wanted[1]) \in Cores(region)
    ELSE /\ Core(Last(wanted)) \in Cores(region)
         /\ HasSido(region) => Core(wanted[1]) \in Cores(region)

\* region_matches.
Matches(region, regions) ==
    region # Unknown /\ \E w \in regions : w # Unknown /\ MatchesOne(region, w)

(***************************************************************************)
(* Addresses                                                               *)
(***************************************************************************)
CityWithWard(addr) == Len(addr) >= 3 /\ addr[2].tail = "si" /\ addr[3].tail = "gu"

\* parse_region: the address of a police box, up to its district.
ParseRegion(addr) ==
    IF Len(addr) < 2 THEN addr
    ELSE SubSeq(addr, 1, IF CityWithWard(addr) THEN 3 ELSE 2)

\* SIDO_NORM.
Norm(t) == IF t.tail = "" /\ t.stem \in Provinces THEN [t EXCEPT !.tail = "sido"] ELSE t

\* region_from_address: what the map service says, up to its district.
RegionFromAddress(addr) ==
    IF Len(addr) < 2 THEN Unknown
    ELSE <<Norm(addr[1])>> \o SubSeq(addr, 2, IF CityWithWard(addr) THEN 3
                                              ELSE IF addr[2].tail \in Districts THEN 2 ELSE 1)

Questions == {"whole", "bare", "both", "inside"}

\* candidate_queries: what the map service is asked, the narrow question first.
Queries(dep) == CASE dep.paren = "none"   -> <<"whole">>
                  [] dep.paren = "shell"  -> <<"bare">>
                  [] dep.paren = "branch" -> IF dep.name = "" THEN <<"inside">>
                                             ELSE <<"both", "inside">>

(***************************************************************************)
(* The gazetteer, from the rows of the police's list.                      *)
(***************************************************************************)
Row == [name : STRING, kind : BoxKinds, station : STRING, addr : Seq(Token)]

Kept(csv) == Among(csv, {r \in ToSet(csv) : r.name # "" /\ r.addr # <<>>})

RowsWith(rows, P(_)) == {n \in DOMAIN rows : P(rows[n])}

FirstOf(ns) == CHOOSE n \in ns : \A m \in ns : n <= m

LastOf(ns) == CHOOSE n \in ns : \A m \in ns : m <= n

\* A box is known with its kind and without; of two of a name the last row stays.
StationsOf(rows) ==
    LET of(key) == RowsWith(rows, LAMBDA r : r.name = key[1] /\ key[2] \in {r.kind, ""})
    IN  [key \in UNION {{<<rows[n].name, k>> : k \in {rows[n].kind, ""}} : n \in DOMAIN rows} |->
            ParseRegion(rows[LastOf(of(key))].addr)]

\* modal: the region that most boxes of a station are in, the first of equals.
Modal(regions) ==
    LET count(g) == Cardinality({n \in DOMAIN regions : regions[n] = g})
        most     == {n \in DOMAIN regions :
                        \A m \in DOMAIN regions : count(regions[m]) <= count(regions[n])}
    IN  regions[FirstOf(most)]

PoliceOf(rows) ==
    [st \in {rows[n].station : n \in DOMAIN rows} \ {""} |->
        LET own == Among(rows, {r \in ToSet(rows) : r.station = st})
        IN  Modal([n \in DOMAIN own |-> ParseRegion(own[n].addr)])]

\* The districts of a row.
DistrictsIn(row) == {t \in ToSet(Tail(ParseRegion(row.addr))) : t.tail \in Districts}

TokensOf(rows) == UNION {DistrictsIn(rows[n]) : n \in DOMAIN rows}

\* Short names of districts, each with the region of the first row that has it, and then
\* those of the provinces that are not taken.
NamesOf(rows) ==
    LET with(s) == RowsWith(rows, LAMBDA r : \E t \in DistrictsIn(r) : t.stem = s)
        short   == {t.stem : t \in {u \in TokensOf(rows) : Letters[u.stem] >= 2}}
    IN  [s \in short \cup Metros |->
            IF s \in short THEN ParseRegion(rows[FirstOf(with(s))].addr)
            ELSE <<[stem |-> s, tail |-> "sido"]>>]

Build(csv) == LET rows == Kept(csv)
              IN  [stations |-> StationsOf(rows), police |-> PoliceOf(rows),
                   tokens |-> TokensOf(rows), names |-> NamesOf(rows)]

(***************************************************************************)
(* From a dep to its region: RegionResolver._resolve, and make_resolver of *)
(* eval/run_boost.py, which follows the same rules.  A dep that holds      *)
(* several words of the tables is given the first in the order of the      *)
(* alphabet, or the longest name; the orders are left open here.           *)
(***************************************************************************)
HeldTokens(gaz, dep) == dep.holds \cap gaz.tokens

HeldNames(gaz, dep) ==
    LET held == {t.stem : t \in dep.holds} \cap DOMAIN gaz.names
    IN  {s \in held : \A o \in held : Letters[o] <= Letters[s]}

InGazetteer(gaz, dep) ==
    CASE <<dep.name, dep.kind>> \in DOMAIN gaz.stations -> gaz.stations[<<dep.name, dep.kind>>]
      [] dep.kind = "police" /\ dep.name \in DOMAIN gaz.police -> gaz.police[dep.name]
      [] dep.kind \in BoxKinds /\ <<dep.name, "">> \in DOMAIN gaz.stations ->
            gaz.stations[<<dep.name, "">>]
      [] OTHER -> IF HeldTokens(gaz, dep) # {}
                  THEN <<CHOOSE t \in HeldTokens(gaz, dep) : TRUE>>
                  ELSE IF HeldNames(gaz, dep) # {}
                  THEN gaz.names[CHOOSE s \in HeldNames(gaz, dep) : TRUE]
                  ELSE Unknown

Resolve(gaz, geocoded, dep) ==
    IF InGazetteer(gaz, dep) # Unknown THEN InGazetteer(gaz, dep)
    ELSE IF dep \in DOMAIN geocoded THEN geocoded[dep] ELSE Unknown
==============================================================================
