------------------------------- MODULE FetchEpub -------------------------------
(***************************************************************************)
(* fetch_weread_epub.py: one run of the script that reports a reading      *)
(* position, or fetches the chapters of a book and writes them as an EPUB. *)
(* The chapters' texts go through the codec of ShardCodec as they are; the *)
(* frame of the XHTML and of the package around them is left out.          *)
(*                                                                         *)
(* Every step is one exchange with the service.  Each exception leaves the *)
(* script, except where a handler is mentioned.                            *)
(***************************************************************************)
EXTENDS ShardCodec

CONSTANTS
    Catalog,    \* what chapterInfos lists: [uid, readable, text, style, images]
    Nowhere,    \* a place no source knows
    MaxFaults,  \* bound on the answers that are not what was asked for
    MaxRenewals \* bound on the cookies the service replaces outside a renewal

ASSUME EpubAssumption ==
    /\ MaxFaults \in Nat /\ MaxRenewals \in Nat
    /\ \A i \in DOMAIN Catalog : Catalog[i].uid = i
    /\ Nowhere \notin 0..2

VARIABLES
    args,       \* the command line
    format,     \* the format the service keeps the book in
    stage,      \* the request that comes next
    at,         \* the chapter being fetched, in the list of those selected
    content_format,
    got,        \* what checked_body makes of the shards of this chapter, or NoText
    chapter,    \* what fetch_chapter has of this chapter
    fetched,
    css,
    output,     \* the file at args.output
    jar,        \* the cookies in memory: how often they were replaced
    saved,      \* those in the cookie file
    faults,
    reported,   \* observer: the position posted to /web/book/read
    cut,        \* observer: chapters one of whose shards came back short
    outcome

run == <<args, format>>
progress == <<at, content_format, got, chapter, fetched, css>>
vars == <<run, stage, progress, output, jar, saved, faults, reported, cut, outcome>>

\* What a shard request brings: the shard; "{}"; at most 32 characters; a longer body
\* that does not have the MD5 in front of it; for e_0 of a TXT book its metadata.
Answers == {"shard", "{}", "short", "corrupt", "info"}

Modes == {"dump", "report", "epub"}
NoChapter == [content |-> <<>>, style |-> <<>>, images |-> {}]

\* main(): without the chapters that have no words, and the cover
Readable == SelectSeq(Catalog, LAMBDA c : c.readable)

ASSUME TextsAssumption == \A i \in DOMAIN Readable : Readable[i].text \in Seq(CodePoint)

\* --skip and --limit
Selected ==
    LET rest == SubSeq(Readable, args.skip + 1, Len(Readable))
    IN  IF args.limit = 0 THEN rest ELSE SubSeq(rest, 1, Least(args.limit, Len(rest)))

Current == Selected[at]

(*------------------------- what the service holds -------------------------*)

\* The payload of the chapter, cut where the service cuts it.
Part(payload, i, n) ==
    SubSeq(payload, ((i - 1) * Len(payload)) \div n + 1, (i * Len(payload)) \div n)

Body(e) ==
    LET text == encode_payload(Current.text)
    IN  CASE e = "e_0" -> Part(text, 1, 3) [] e = "e_1" -> Part(text, 2, 3)
          [] e = "e_3" -> Part(text, 3, 3)
          [] e = "t_0" -> Part(text, 1, 2) [] e = "t_1" -> Part(text, 2, 2)
          [] e = "e_2" -> encode_payload(Current.style)

\* The answer the service gives when nothing is wrong.
Proper(e) ==
    CASE format = "txt" /\ e = "e_0" -> "info"
      [] e \in {"t_0", "t_1"} /\ format = "epub" -> "{}"
      [] e \in {"e_1", "e_2", "e_3"} /\ format = "txt" -> "corrupt"
      [] e = "e_2" /\ Current.style = <<>> -> "{}"
      [] OTHER -> "shard"

(*------------------------------ the run ------------------------------*)

Fail == stage' = "done" /\ outcome' = "failed"
Go(s) == stage' = s /\ UNCHANGED outcome

\* Any answer may replace cookies of the jar.
Rotate == jar' \in IF jar < MaxRenewals THEN {jar, jar + 1} ELSE {jar}

Fault == faults < MaxFaults /\ faults' = faults + 1

\* An HTTP error, no connection, no JSON, or a refusal.
Broken == Fault /\ Fail

persist_cookies == saved' = IF args.cookieFile THEN jar' ELSE saved

\* Mutant: the renewed cookies are not kept.
RenewUnsaved ==
    /\ stage = "renew"
    /\ \/ /\ jar' = jar + 1
          /\ (Go("page") /\ UNCHANGED faults) \/ Broken
       \/ Broken /\ UNCHANGED jar
    /\ UNCHANGED <<run, progress, output, saved, reported, cut>>

\* The renewal replaces the cookies and keeps them, whether it says it succeeded or not;
\* an exception, of the cookie file's too, ends the run.
Renew ==
    /\ stage = "renew"
    /\ \/ /\ jar' = jar + 1 /\ persist_cookies
          /\ (Go("page") /\ UNCHANGED faults) \/ Broken
       \/ Broken /\ jar' \in {jar, jar + 1} /\ UNCHANGED saved
    /\ UNCHANGED <<run, progress, output, reported, cut>>

\* The reader page, which holds the session (read_reader_state).
ReaderPage ==
    /\ stage = "page" /\ Rotate
    /\ \/ Go(IF args.mode = "epub" THEN "catalog" ELSE "report") /\ UNCHANGED faults
       \/ Broken
    /\ UNCHANGED <<run, progress, output, saved, reported, cut>>

\* Mutant: the offset of the progress before that of the chapter that is open.
ReportedMixed ==
    LET either(a, b) == IF a # 0 THEN a ELSE b
    IN  [uid |-> IF args.given.uid # 0 THEN args.given.uid
                 ELSE either(args.current.uid, args.progress.uid),
         offset |-> IF args.given.offset # Nowhere THEN args.given.offset
                    ELSE either(args.progress.offset, args.current.offset)]

\* Field by field from the command line, the current chapter and the progress of the page;
\* "or" takes an offset of 0 for none, except on the command line.
Reported ==
    LET either(f) == IF args.current[f] # 0 THEN args.current[f] ELSE args.progress[f]
    IN  [uid |-> IF args.given.uid # 0 THEN args.given.uid ELSE either("uid"),
         offset |-> IF args.given.offset # Nowhere THEN args.given.offset ELSE either("offset")]

\* --dump-read-payload prints the payload; --report-read posts it.
Report ==
    /\ stage = "report"
    /\ IF args.mode = "dump"
       THEN /\ stage' = "done" /\ outcome' = "ok"
            /\ UNCHANGED <<jar, saved, faults, reported>>
       ELSE /\ Rotate
            /\ \/ /\ stage' = "done" /\ outcome' = "ok"
                  /\ persist_cookies /\ reported' = Reported /\ UNCHANGED faults
               \/ Broken /\ UNCHANGED <<saved, reported>>
    /\ UNCHANGED <<run, progress, output, cut>>

\* chapterInfos (normalize_chapter_infos); "No chapters selected" is an error.
ChapterInfos ==
    /\ stage = "catalog" /\ Rotate
    /\ \/ /\ IF Selected = <<>> THEN Fail ELSE Go("chapter")
          /\ UNCHANGED faults
       \/ Broken
    /\ UNCHANGED <<run, progress, output, saved, reported, cut>>

\* fetch_chapter: the page of the chapter, for its psvts
ChapterPage ==
    /\ stage = "chapter" /\ Rotate
    /\ \/ Go(IF content_format = "txt" THEN "t_0" ELSE "e_0") /\ UNCHANGED faults
       \/ Broken
    /\ got' = <<>> /\ chapter' = NoChapter
    /\ UNCHANGED <<run, at, content_format, fetched, css, output, saved, reported, cut>>

checked_body(a, body) ==
    CASE a = "shard" -> body [] a \in {"short", "{}"} -> <<>> [] OTHER -> NoText

\* The shards of this chapter in the order in which they are joined
decode_content_shards(shards) ==
    IF \E i \in DOMAIN shards : shards[i] = NoText THEN NoText
    ELSE decode_encoded_payload(FlattenSeq(shards))

\* What follows a shard that is no "{}".
AfterShard(e, a) ==
    CASE e = "e_0" /\ a = "info" ->
           Go("t_0") /\ content_format' = "txt" /\ UNCHANGED <<got, chapter>>
      [] e = "e_0" /\ a # "info" ->
           /\ Go("e_1") /\ content_format' = "epub"
           /\ got' = <<checked_body(a, Body(e))>> /\ UNCHANGED chapter
      [] e \in {"e_1", "t_0"} ->
           /\ Go(IF e = "e_1" THEN "e_3" ELSE "t_1")
           /\ got' = Append(got, checked_body(a, Body(e)))
           /\ UNCHANGED <<content_format, chapter>>
      [] e \in {"e_3", "t_1"} ->
           LET content == decode_content_shards(Append(got, checked_body(a, Body(e)))) IN
           /\ IF content = NoText THEN Fail ELSE Go(IF e = "e_3" THEN "e_2" ELSE "next")
           /\ got' = <<>> /\ chapter' = [NoChapter EXCEPT !.content = content]
           /\ UNCHANGED content_format
      [] e = "e_2" ->
           LET style == decode_content_shards(<<checked_body(a, Body(e))>>) IN
           /\ Go("tar")
           /\ chapter' = [chapter EXCEPT !.style = IF style = NoText THEN <<>> ELSE style]
           /\ UNCHANGED <<got, content_format>>

\* The ValueError of a "{}" is caught for t_1, which a short text does not have, and for
\* the style.
Shard ==
    /\ stage \in {"e_0", "e_1", "e_2", "e_3", "t_0", "t_1"} /\ Rotate
    /\ \/ \E a \in {"{}", "short", "corrupt"} \union {Proper(stage)} :
            /\ IF a = Proper(stage) THEN UNCHANGED <<faults, cut>>
               ELSE /\ Fault
                    /\ cut' = IF a \in {"{}", "short"} /\ stage # "e_2" THEN cut \union {Current.uid}
                              ELSE cut
            /\ IF a = "{}" /\ stage \notin {"t_1", "e_2"}
               THEN Fail /\ UNCHANGED <<content_format, got, chapter>>
               ELSE AfterShard(stage, a)
       \/ Broken /\ UNCHANGED <<content_format, got, chapter, cut>>
    /\ UNCHANGED <<run, at, fetched, css, output, saved, reported>>

\* download_chapter_assets, for a chapter that has an archive of images
Tar ==
    /\ stage = "tar"
    /\ IF Current.images = {} THEN Go("next") /\ UNCHANGED <<jar, faults, chapter>>
       ELSE /\ Rotate
            /\ \/ /\ Go("next") /\ UNCHANGED faults
                  /\ chapter' = [chapter EXCEPT !.images = Current.images]
               \/ Broken /\ UNCHANGED chapter
    /\ UNCHANGED <<run, at, content_format, got, fetched, css, output, saved, reported, cut>>

\* The first style found serves the whole book.
NextChapter ==
    /\ stage = "next"
    /\ fetched' = Append(fetched, [uid |-> Current.uid, content |-> chapter.content,
                                   images |-> chapter.images])
    /\ css' = IF css = <<>> THEN chapter.style ELSE css
    /\ at' = at + 1
    /\ Go(IF at = Len(Selected) THEN "write" ELSE "chapter")
    /\ UNCHANGED <<run, content_format, got, chapter, output, jar, saved, faults, reported, cut>>

\* write_epub: the images of all chapters in one directory, the last of a name wins.
Assets(chapters) ==
    [name \in UNION {chapters[i].images : i \in DOMAIN chapters} |->
       chapters[CHOOSE i \in DOMAIN chapters :
                  /\ name \in chapters[i].images
                  /\ \A j \in (i + 1)..Len(chapters) : name \notin chapters[j].images].uid]

NoBook(kind) == [kind |-> kind, chapters |-> <<>>, assets |-> <<>>, css |-> <<>>]

\* The file is opened where it stays: an error in the writing leaves what was written.
OpenOutput ==
    /\ stage = "write"
    /\ Go("entries") /\ output' = NoBook("torn")
    /\ UNCHANGED <<run, progress, jar, saved, faults, reported, cut>>

WriteEntries ==
    /\ stage = "entries"
    /\ \/ /\ Go("persist") /\ UNCHANGED faults
          /\ output' = [kind |-> "whole", chapters |-> [i \in DOMAIN fetched |->
                                         [uid |-> fetched[i].uid, content |-> fetched[i].content]],
                        assets |-> Assets(fetched), css |-> css]
       \/ Broken /\ UNCHANGED output
    /\ UNCHANGED <<run, progress, jar, saved, reported, cut>>

Persist ==
    /\ stage = "persist" /\ UNCHANGED jar
    /\ \/ stage' = "done" /\ outcome' = "ok" /\ persist_cookies /\ UNCHANGED faults
       \/ Broken /\ UNCHANGED saved
    /\ UNCHANGED <<run, progress, output, reported, cut>>

Kill ==
    /\ stage # "done" /\ Fault
    /\ stage' = "done" /\ outcome' = "killed"
    /\ UNCHANGED <<run, progress, output, jar, saved, reported, cut>>

\* A source that has no chapter has no offset in it.
PagePlaces == {p \in [uid : 0..2, offset : 0..2] : p.uid = 0 => p.offset = 0}
Given == [uid : 0..2, offset : {Nowhere, 0, 1}]
None == [uid |-> 0, offset |-> Nowhere]

Init ==
    /\ args \in [mode : Modes, renew : BOOLEAN, cookieFile : BOOLEAN, skip : 0..1, limit : 0..1,
                 given : Given, current : PagePlaces, progress : PagePlaces]
    /\ IF args.mode = "report" THEN args.skip = 0 /\ args.limit = 0
       ELSE args.given = None /\ args.current.uid = 0 /\ args.progress.uid = 0
    /\ format \in {"epub", "txt"}
    /\ args.mode # "epub" => format = "epub" /\ args.skip = 0 /\ args.limit = 0
    /\ stage = IF args.renew THEN "renew" ELSE "page"
    /\ at = 1 /\ content_format = "auto"
    /\ got = <<>> /\ chapter = NoChapter /\ fetched = <<>> /\ css = <<>>
    /\ output = NoBook("previous")
    /\ jar = 0 /\ saved = 0 /\ faults = 0
    /\ reported = Nowhere /\ cut = {}
    /\ outcome = "open"

Next ==
    \/ Renew \/ ReaderPage \/ Report \/ ChapterInfos
    \/ ChapterPage \/ Shard \/ Tar \/ NextChapter
    \/ OpenOutput \/ WriteEntries \/ Persist \/ Kill

Spec == Init /\ [][Next]_vars

(*------------------------------ properties ------------------------------*)

\* The file has the selected chapters in their order, each with its text, whatever shards
\* it came in, and with its own images where no later chapter has one of that name.  What
\* an answer of at most 32 characters, or a "{}" for t_1, took away from a chapter is not
\* noticed: those chapters are left out here.
WholeBook ==
    /\ Len(output.chapters) = Len(Selected)
    /\ \A i \in DOMAIN Selected :
         /\ output.chapters[i].uid = Selected[i].uid
         /\ Selected[i].uid \notin cut => output.chapters[i].content = Selected[i].text
         /\ format = "epub" => \A name \in Selected[i].images :
               \/ \E j \in (i + 1)..Len(Selected) : name \in Selected[j].images
               \/ output.assets[name] = Selected[i].uid

\* "ok" (main(), line 926) is said of such a book only.
BookIsWhole == outcome = "ok" /\ args.mode = "epub" => WholeBook

\* A run that ends early leaves the file of the last one: it is opened only when every
\* selected chapter is there.
OutputWaits == output.kind # "previous" => Len(fetched) = Len(Selected)

\* What is at args.output: the last run's file, a whole book, or one torn by a failure
\* while it was written.
OutputIsABook == BookIsWhole /\ OutputWaits

\* The cookies of a renewal are in the file before anything else can go wrong, and those
\* of the last answer once a report or a book is complete (lines 286, 856, 922).
CookiesAreKept ==
    args.cookieFile =>
        /\ args.renew /\ stage \notin {"renew", "done"} => saved >= 1
        /\ outcome = "ok" /\ args.mode # "dump" => saved = jar

\* A report names a place that some source named as a whole, if the command line gives
\* all of it or nothing, and the current chapter is not just begun while the progress is
\* in another one: then the offset of that one would be reported for this one.
ReportedIsAPlace ==
    /\ reported # Nowhere
    /\ args.given \in {None} \union [uid : 1..2, offset : 0..1]
    /\ args.current.offset = 0 /\ args.current.uid # 0 => args.progress.uid = args.current.uid
    => reported \in {args.given, args.current, args.progress}

================================================================================
