------------------------------- MODULE MCRegions -------------------------------
(***************************************************************************)
(* Two lists of the police: the second one adds boxes in Busan and Suwon.  *)
(* Gwangju is a metropolis and a city of Gyeonggi, Jung-gu is a district   *)
(* of Seoul and of Busan; one address has its province by the short name.  *)
(* A police box, a police station, a centre that has only a name, a hall   *)
(* that says its city, and a shop that only the map service knows keep     *)
(* items.                                                                  *)
(***************************************************************************)
EXTENDS Regions, TLC

Word(s, t) == [stem |-> s, tail |-> t]

MCLetters == [s \in {"seoul", "busan", "gwangju", "gyeonggi", "suwon", "jangan", "mapo"} |-> 2]
             @@ [s \in {"jung"} |-> 1]

MCProvinces == {"seoul", "busan", "gwangju", "gyeonggi"}

MCMetros == {"seoul", "busan", "gwangju"}

Road == Word("mapo", "")

MCCsvs ==
    LET box(n, st, a) == [name |-> n, kind |-> "jigudae", station |-> st, addr |-> a]
        first == <<box("A", "North", <<Word("gyeonggi", "sido"), Word("gwangju", "si"), Road>>),
                   box("B", "South", <<Word("seoul", "sido"), Word("jung", "gu"), Road>>),
                   box("", "South", <<Word("seoul", "sido")>>)>>
    IN  <<first,
          first \o <<box("C", "South", <<Word("busan", "sido"), Word("jung", "gu"), Road>>),
                     box("D", "South", <<Word("busan", "sido"), Word("jung", "gu"), Road>>),
                     box("E", "West", <<Word("gyeonggi", ""), Word("suwon", "si"),
                                        Word("jangan", "gu"), Road>>)>>>>

Box == [name |-> "B", kind |-> "pachulso", holds |-> {}, paren |-> "none"]

Station == [name |-> "South", kind |-> "police", holds |-> {}, paren |-> "none"]

Centre == [name |-> "centre", kind |-> "", holds |-> {Word("suwon", "")}, paren |-> "none"]

Shop == [name |-> "shop", kind |-> "", holds |-> {}, paren |-> "branch"]

Firm == [name |-> "firm", kind |-> "", holds |-> {}, paren |-> "shell"]

Hall == [name |-> "hall", kind |-> "", holds |-> {Word("gwangju", "si")}, paren |-> "none"]

MCDeps == {Box, Station, Centre, Shop, Firm, Hall}

MCDepOf == [d \in {"i1", "i2", "i3"} |->
               CASE d = "i1" -> Station [] d = "i2" -> Centre [] d = "i3" -> Shop]

MCKakao == [dep \in MCDeps |-> [q \in Questions |->
               IF dep = Shop /\ q = "inside" THEN <<Word("seoul", ""), Word("mapo", "gu"), Road>>
               ELSE IF dep = Centre THEN <<Word("gyeonggi", ""), Word("suwon", "si"), Road>>
               ELSE Unknown]]

MCWanted == {<<Word("seoul", ""), Word("jung", "gu")>>, <<Word("busan", ""), Word("jung", "gu")>>,
             <<Word("jung", "")>>, <<Word("jung", "gu")>>, <<Word("mapo", "")>>, <<Word("mapo", "do")>>,
             <<Word("gwangju", "")>>, <<Word("gyeonggi", ""), Word("gwangju", "")>>,
             <<Word("suwon", "si"), Word("jangan", "gu")>>,
             <<Word("busan", ""), Word("jangan", "gu")>>}
===============================================================================
