--------------------------- MODULE VisionArchive ----------------------------
(***************************************************************************)
(* Files of the public Binance archive (quanta.archive.binance_vision):    *)
(* the pages of the bucket listing, and one file fetched again and again   *)
(* while the archive may publish a new version of it between any two       *)
(* requests.  Verified against the MD5 of a listing where there is one,    *)
(* else against the checksum published beside the file.  The bytes are a   *)
(* version, or Damaged.                                                    *)
(***************************************************************************)
EXTENDS Naturals, Sequences, FiniteSetsExt

CONSTANTS
  Attempts,
  MaxVersion,  \* bound: versions published
  MaxFetches   \* bound: runs

Damaged == MaxVersion + 1

NoFile == 0

VARIABLES
  upstream,   \* version published, NoFile before the first
  listed,     \* MD5 of the listing the caller holds (a version), or NoFile
  mirror,     \* bytes in the mirror, or NoFile
  parquet,    \* bytes the Parquet file was made from, or NoFile
  fetch,      \* the fetch in progress: [step, attempt, data]
  status,     \* of the last fetch
  fetches

vars == <<upstream, listed, mirror, parquet, fetch, status, fetches>>

Idle == [step |-> "idle", attempt |-> 1, data |-> NoFile]

Init ==
  /\ upstream = NoFile /\ listed = NoFile
  /\ mirror = NoFile /\ parquet = NoFile
  /\ fetch = Idle /\ status = "none"
  /\ fetches = 0

Publish ==
  /\ upstream < MaxVersion
  /\ upstream' = upstream + 1
  /\ UNCHANGED <<listed, mirror, parquet, fetch, status, fetches>>

Die ==
  /\ fetch.step # "idle"
  /\ fetch' = Idle /\ status' = "none"
  /\ UNCHANGED <<upstream, listed, mirror, parquet, fetches>>

(* A run with a listing, made just before, or without one.  What is in the *)
(* mirror is taken when it is the listed version or no version is asked    *)
(* for; otherwise it is removed.                                           *)
Start ==
  /\ fetch.step = "idle" /\ fetches < MaxFetches
  /\ fetches' = fetches + 1
  /\ listed' \in {NoFile, upstream}
  /\ IF mirror # NoFile /\ listed' \in {NoFile, mirror}
       THEN fetch' = [Idle EXCEPT !.step = "convert"] /\ status' = "cached" /\ UNCHANGED mirror
       ELSE fetch' = [Idle EXCEPT !.step = "data"] /\ status' = "none" /\ mirror' = NoFile
  /\ UNCHANGED <<upstream, parquet>>

Ends(st) == fetch' = Idle /\ status' = st

(* A request that fails is made again, both of them when there are two.    *)
Again ==
  IF fetch.attempt < Attempts
    THEN fetch' = [fetch EXCEPT !.step = "data", !.attempt = @ + 1] /\ UNCHANGED status
    ELSE Ends("error")

RequestFails == fetch.step \in {"data", "checksum"} /\ Again /\ UNCHANGED mirror

Store(data) ==
  /\ mirror' = data
  /\ fetch' = [fetch EXCEPT !.step = "convert"]
  /\ status' = "downloaded"

Data ==
  /\ fetch.step = "data"
  /\ IF upstream = NoFile THEN Ends("missing") /\ UNCHANGED mirror
     ELSE \E data \in {upstream, Damaged} :
            CASE listed = NoFile ->
                   /\ fetch' = [fetch EXCEPT !.step = "checksum", !.data = data]
                   /\ UNCHANGED <<mirror, status>>
              [] listed # NoFile /\ data = listed -> Store(data)
              [] OTHER -> Ends("checksum_mismatch") /\ UNCHANGED mirror

(* Bug for the mutants: the file is stored before its checksum is read.    *)
ChecksumLater ==
  /\ fetch.step = "checksum"
  /\ Store(fetch.data)

Checksum ==
  /\ fetch.step = "checksum"
  /\ IF fetch.data = upstream THEN Store(fetch.data)
     ELSE Ends("checksum_mismatch") /\ UNCHANGED mirror

(* backfill converts what was downloaded or cached, after all fetches.     *)
Convert ==
  /\ fetch.step = "convert"
  /\ parquet' = mirror
  /\ fetch' = Idle
  /\ UNCHANGED <<mirror, status>>

FetchStep ==
  /\ \/ (RequestFails \/ Data \/ Checksum) /\ UNCHANGED parquet
     \/ Convert
  /\ UNCHANGED <<upstream, listed, fetches>>

Next == Publish \/ Start \/ Die \/ FetchStep

Spec == Init /\ [][Next]_vars

-----------------------------------------------------------------------------

(* Nothing damaged is ever in the mirror; a run that was given a listing   *)
(* leaves the listed version there, or nothing; and when a run is through, *)
(* the table was made from what the mirror holds.                          *)
FetchedIsVerified ==
  /\ mirror # Damaged /\ parquet # Damaged
  /\ fetch.step = "idle" /\ status \in {"cached", "downloaded"} =>
       /\ mirror # NoFile /\ parquet = mirror
       /\ listed \in {NoFile, mirror}

(* What makes it hold: what is stored was compared with a version that was *)
(* published, and is still to be converted until the fetch ends.           *)
VisionInv ==
  /\ {upstream, listed, mirror, parquet} \subseteq 0..MaxVersion
  /\ fetch \in [step : {"idle", "data", "checksum", "convert"}, attempt : Nat, data : 0..Damaged]
  /\ fetch.step = "checksum" => listed = NoFile /\ fetch.data # NoFile
  /\ fetch.step = "convert" \/ (fetch.step = "idle" /\ status \in {"cached", "downloaded"}) =>
       /\ mirror # NoFile /\ listed \in {NoFile, mirror}
       /\ fetch.step = "idle" => parquet = mirror

-----------------------------------------------------------------------------
(* list_keys: the listing of a prefix comes in pages of entries (objects   *)
(* and sub-prefixes) after a marker; the next marker is what the page says *)
(* or the last entry on it.  Entries are numbers, prefixes those in Pre.   *)

Page(entries, marker, size, pre, says) ==
  LET rest == SelectSeq(entries, LAMBDA e : e > marker)
      page == SubSeq(rest, 1, Min({size, Len(rest)}))
  IN  [objects |-> SelectSeq(page, LAMBDA e : e \notin pre),
       prefixes |-> SelectSeq(page, LAMBDA e : e \in pre),
       truncated |-> Len(rest) > size,
       next |-> IF says /\ page # <<>> THEN page[Len(page)] ELSE 0]

LastOf(s) == IF s = <<>> THEN 0 ELSE s[Len(s)]

(* Bug: the marker is the last object, whatever the last prefix is.        *)
NextMarkerObject(page, objects, prefixes) == IF page.next # 0 THEN page.next ELSE LastOf(objects)

NextMarker(page, objects, prefixes) ==
  IF page.next # 0 THEN page.next ELSE Max({LastOf(objects), LastOf(prefixes)})

list_keys(entries, size, pre, says) ==
  LET step(i, acc) ==
        IF acc.end THEN acc
        ELSE LET page == Page(entries, acc.marker, size, pre, says)
                 all == [acc EXCEPT !.objects = @ \o page.objects, !.prefixes = @ \o page.prefixes]
             IN  [all EXCEPT !.marker = NextMarker(page, all.objects, all.prefixes),
                             !.end = ~ page.truncated]
  IN  FoldSet(step, [objects |-> <<>>, prefixes |-> <<>>, marker |-> 0, end |-> FALSE],
              1..(Len(entries) + 1))

(* Every entry is listed once, however the pages fall.                     *)
ListingIsWhole(entries, size, pre, says) ==
  LET l == list_keys(entries, size, pre, says)
  IN  /\ l.objects = SelectSeq(entries, LAMBDA e : e \notin pre)
      /\ l.prefixes = SelectSeq(entries, LAMBDA e : e \in pre)
      /\ l.end

=============================================================================
