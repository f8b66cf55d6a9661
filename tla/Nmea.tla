-------------------------------- MODULE Nmea --------------------------------
(***************************************************************************)
(* The NMEA sentences generated from the engine's reports                  *)
(* (loc_eng_nmea.cpp, and the end of LocEngReportPosition and              *)
(* LocEngReportSv).  A satellite report is paged into GSV sentences, and   *)
(* leaves behind, for the next position report, the satellites used in the *)
(* fix and the dilutions of precision.  Of a sentence only its kind, its   *)
(* satellites and what it says of the fix are kept.                        *)
(***************************************************************************)
EXTENDS Naturals, Sequences, FiniteSets

CONSTANTS
  Lists,         \* the lists of satellites a report may hold, by system
  Masks,         \* gps_used_in_fix_mask, as the set of satellites used
  MaxNmea        \* bound on the reports

ASSUME NmeaAssumption ==
  /\ Lists \subseteq Seq({"GPS", "GLONASS", "other"})
  /\ Masks \subseteq SUBSET (1..32)

VARIABLES
  inSession,     \* isInSession() and the recurrence of its mode
  sv_used_mask, dop, \* the caches; dop is the report it came from, 0 if none
  svReport,      \* the last satellite report, numbered
  spent,         \* the caches of svReport already used: "mask", "dop"
  sentences,     \* what the last report generated
  reports

nmeaVars == <<inSession, sv_used_mask, dop, svReport, spent, sentences, reports>>

NmeaInit ==
  /\ inSession \in {"none", "SINGLE", "PERIODIC"}
  /\ sv_used_mask = {} /\ dop = 0
  /\ svReport = [number |-> 0, list |-> <<>>, mask |-> {}, dop |-> FALSE]
  /\ spent = {} /\ sentences = <<>> /\ reports = 0

-----------------------------------------------------------------------------
(* loc_eng_nmea_generate_sv.                                                *)

\* The satellites of a system, numbered as the list numbers them, and the first
\* n of a set of them.  They are printed in that order, so a set says it all.
Of(list, system) == {i \in DOMAIN list : list[i] = system}
FirstOf(svs, n)  == {i \in svs : Cardinality({j \in svs : j < i}) < n}

\* The satellites in the sentence that begins with svNumber: the loop skips those
\* of other systems, and ends behind the fourth or behind the list.
Page(list, system, svNumber) == FirstOf({i \in Of(list, system) : i >= svNumber}, 4)

PageEnd(list, system, svNumber) ==
  LET page == Page(list, system, svNumber)
  IN IF Cardinality(page) < 4 THEN Len(list) + 1 ELSE 1 + CHOOSE i \in page : \A j \in page : j <= i

sentenceCount(count) == count \div 4 + (IF count % 4 # 0 THEN 1 ELSE 0)

Gsv(list, system) ==
  LET count == Cardinality(Of(list, system))
      total == sentenceCount(count)
      svNumber[n \in 1..total] ==
        IF n = 1 THEN 1 ELSE PageEnd(list, system, svNumber[n - 1])
  IN  IF count = 0 THEN <<[kind |-> system, total |-> 1, number |-> 1, count |-> 0, svs |-> {}]>>
      ELSE [n \in 1..total |-> [kind |-> system, total |-> total, number |-> n,
                                count |-> count, svs |-> Page(list, system, svNumber[n])]]

\* Mutant: a report without dilutions of precision leaves the old ones.
CacheKept(mask, hasDop) ==
  sv_used_mask' = mask /\ dop' = IF hasDop THEN reports' ELSE dop

\* What the next position report will use: the mask as it is, and no dilution
\* of precision rather than an old one.
cacheForFix(mask, hasDop) ==
  sv_used_mask' = mask /\ dop' = IF hasDop THEN reports' ELSE 0

generate_sv(list, mask, hasDop) ==
  /\ sentences' = Gsv(list, "GPS") \o Gsv(list, "GLONASS")
  /\ cacheForFix(mask, hasDop)
  /\ svReport' = [number |-> reports', list |-> list, mask |-> mask, dop |-> hasDop]
  /\ spent' = {}

LocEngReportSv ==
  /\ reports < MaxNmea /\ reports' = reports + 1
  /\ \E list \in Lists, mask \in Masks, hasDop \in BOOLEAN : generate_sv(list, mask, hasDop)
  /\ UNCHANGED inSession

-----------------------------------------------------------------------------
(* loc_eng_nmea_generate_pos.                                               *)

\* Twelve satellites fit in the GSA sentence; the kind of fix counts them all.
Gsa(hasDop) ==
  LET n == Cardinality(sv_used_mask)
  IN  [kind |-> "GSA", fix |-> IF n = 0 THEN "none" ELSE IF n <= 3 THEN "2D" ELSE "3D",
       svs |-> FirstOf(sv_used_mask, 12),
       dop |-> IF hasDop THEN "location" ELSE IF dop # 0 THEN "cached" ELSE "none"]

\* What the other three sentences say of the quality of the fix.
Quality(latLong, standalone) ==
  CASE ~latLong -> "none" [] latLong /\ standalone -> "autonomous" [] OTHER -> "differential"

Vtg(quality) == [kind |-> "VTG", quality |-> quality]

\* The status is A, active, whether or not there is a position to print.
Rmc(quality) == [kind |-> "RMC", status |-> "A", quality |-> quality]

Gga(quality) == [kind |-> "GGA", count |-> Cardinality(sv_used_mask), quality |-> quality]

Blank == <<[kind |-> "GSA", fix |-> "none", svs |-> {}, dop |-> "none"],
           Vtg("none"), [Rmc("none") EXCEPT !.status = "V"],
           [kind |-> "GGA", count |-> 0, quality |-> "none"]>>

\* A time gmtime cannot convert ends it before the caches are cleared; the
\* sentences of a fix that was not reported leave the satellites used.
generate_pos(generate_nmea, hasDop, badTime, quality) ==
  IF badTime THEN sentences' = <<>> /\ UNCHANGED <<sv_used_mask, dop, spent>>
  ELSE /\ sentences' = IF generate_nmea THEN <<Gsa(hasDop), Vtg(quality), Rmc(quality), Gga(quality)>> ELSE Blank
       /\ sv_used_mask' = IF generate_nmea THEN {} ELSE sv_used_mask
       /\ dop' = 0
       /\ spent' = spent \cup {"dop"} \cup (IF generate_nmea THEN {"mask"} ELSE {})

\* A fix reported in a single session ends it first, and so has no sentences.
LocEngReportPosition ==
  /\ reports < MaxNmea /\ reports' = reports + 1
  /\ \E failed, accepted, hasDop, badTime, latLong, standalone \in BOOLEAN :
       LET reported == failed \/ accepted
           ends     == reported /\ inSession = "SINGLE"
       IN  /\ inSession' = IF ends THEN "none" ELSE inSession
           /\ IF inSession' # "none" THEN generate_pos(reported /\ ~failed, hasDop, badTime,
                                                     Quality(latLong, standalone))
              ELSE sentences' = <<>> /\ UNCHANGED <<sv_used_mask, dop, spent>>
  /\ UNCHANGED svReport

NmeaNext == LocEngReportSv \/ LocEngReportPosition

NmeaSpec == NmeaInit /\ [][NmeaNext]_nmeaVars

-----------------------------------------------------------------------------
NmeaTypeOK ==
  /\ inSession \in {"none", "SINGLE", "PERIODIC"} /\ dop \in 0..reports
  /\ sv_used_mask \in Masks \cup {{}} /\ spent \subseteq {"mask", "dop"}

(* The GSV sentences of a system list its satellites once each, in order, at *)
(* most four to a sentence and no sentence empty unless it is the only one,  *)
(* and are numbered out of the total they announce.                         *)
GsvComplete ==
  \A system \in {"GPS", "GLONASS"} :
    LET gsv  == {n \in DOMAIN sentences : sentences[n].kind = system}
        mine == Of(svReport.list, system)
    IN  gsv # {} =>
          /\ UNION {sentences[n].svs : n \in gsv} = mine
          /\ \A n, m \in gsv : n < m => \A i \in sentences[n].svs, j \in sentences[m].svs : i < j
          /\ \A n \in gsv :
               /\ sentences[n].number = Cardinality({m \in gsv : m <= n})
               /\ sentences[n].total = Cardinality(gsv) /\ sentences[n].count = Cardinality(mine)
               /\ Cardinality(sentences[n].svs) \in (IF mine = {} THEN {0} ELSE 1..4)

(* What a satellite report leaves behind reaches at most one position       *)
(* report: the satellites used until a fix is printed with them, the        *)
(* dilutions of precision until any fix, and neither outlives the next      *)
(* satellite report.  ("clear the cache so they can't be used again")       *)
CachesOnce ==
  /\ sv_used_mask = IF "mask" \in spent THEN {} ELSE svReport.mask
  /\ dop = IF "dop" \notin spent /\ svReport.dop THEN svReport.number ELSE 0

(* The sentences of a satellite report are complete, and what it leaves to  *)
(* the position reports is used once (loc_eng_nmea.cpp).                    *)
SentencesWhole == GsvComplete /\ CachesOnce
=============================================================================
