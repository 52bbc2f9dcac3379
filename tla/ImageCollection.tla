----------------------------- MODULE ImageCollection -----------------------------
(***************************************************************************)
(* An image collection (image_collection.cpp): a catalogue of images, of    *)
(* the bands of its format and of the files (GDAL datasets) that hold the   *)
(* bands of an image.  The catalogue is an SQLite database, in memory or a  *)
(* file; every statement commits on its own.                                *)
(*                                                                         *)
(* What the code learns of a file by GDAL and by the patterns of the format *)
(* is a record: matches (the global pattern), opens, subs (subdatasets),    *)
(* extent (does it have one), left and right, rasters (their number), the   *)
(* name of its image and its date (NoMatch if the pattern fails), the       *)
(* bands whose pattern it matches, md (has the metadata of the format) and  *)
(* the values of its bands.  Space has one dimension.                       *)
(***************************************************************************)
EXTENDS Integers, Sequences, FiniteSets, SequencesExt, FiniteSetsExt

CONSTANTS Descriptors,  \* names of files
          FileInfo,     \* [Descriptors -> records]
          BandOrder,    \* the bands of the format, in the order of their ids
          Subdatasets,  \* does the format ask for subdatasets
          NoMatch, Unparsable,
          FileNames, Temporary, NoFile, Memory

VARIABLES db,        \* the catalogue
          filename,  \* _filename; Temporary is the empty name
          handle,    \* what the database handle stands for: Memory or a file
          unwritten, \* did the last call of write fail (a history variable)
          saved,     \* files on disk
          adding     \* what is left of a call of add, NotAdding otherwise

cvars == <<db, filename, handle, unwritten, saved, adding>>

Bands == Range(BandOrder)

\* Subdatasets are files; what GDAL finds of a file is a date or none, and an interval of even
\* length (windows are widened by halves).
ASSUME FilesAssumption ==
    /\ Memory \notin FileNames
    /\ BandOrder \in Seq(Bands)
    /\ \A f \in Descriptors :
        /\ FileInfo[f].subs \in Seq(Descriptors)
        /\ FileInfo[f].date \in Int \cup {NoMatch, Unparsable}
        /\ FileInfo[f].left \in Int /\ FileInfo[f].right \in Int
        /\ FileInfo[f].extent /\ FileInfo[f].image # NoMatch =>
            /\ FileInfo[f].left < FileInfo[f].right
            /\ FileInfo[f].left % 2 = 0 /\ FileInfo[f].right % 2 = 0

Empty == [images |-> <<>>, refs |-> {}, bands |-> Bands,
          described |-> [b \in Bands |-> NoFile], md |-> <<>>]

NotAdding == [todo |-> <<>>, strict |-> FALSE, complete |-> {}]

Info(f) == FileInfo[f]

ImageIds(d) == DOMAIN d.images

\* A connected file is the database.
Commit(d) ==
    /\ db' = d
    /\ saved' = IF handle = Memory THEN saved ELSE [saved EXCEPT ![handle] = d]

-------------------------------------------------------------------------------
\* add

\* Subdatasets take the place of the files; files that do not open are skipped.
Expanded(list) ==
    IF Subdatasets
    THEN FlattenSeq([k \in DOMAIN list |-> IF Info(list[k]).opens THEN Info(list[k]).subs ELSE <<>>])
    ELSE list

\* strict: the first file that does not open ends the call.
ExpansionThrows(list, strict) ==
    Subdatasets /\ strict /\ \E k \in DOMAIN list : ~Info(list[k]).opens

Skipped(f) == ~Info(f).matches

\* Reasons to skip the file, or to throw if strict.
Refused(f) ==
    \/ ~Info(f).opens
    \/ ~Info(f).extent
    \/ Info(f).rasters = 0
    \/ Info(f).image = NoMatch

Same(d, f) == {i \in ImageIds(d) : d.images[i].name = Info(f).image}

\* Only the first file of an image needs a date.
Undated(d, f) == Same(d, f) = {} /\ Info(f).date = NoMatch
Throws(d, f)  == Same(d, f) = {} /\ Info(f).date = Unparsable

\* Rowids: one more than the largest.
NewId(d) == IF ImageIds(d) = {} THEN 1 ELSE Max(ImageIds(d)) + 1

\* Mutant: every file makes an image.
ImageNew(d, f) ==
    [id |-> NewId(d),
     d  |-> [d EXCEPT !.images = [i \in ImageIds(d) \cup {NewId(d)} |->
                IF i \in ImageIds(d) THEN d.images[i]
                ELSE [name |-> Info(f).image, date |-> Info(f).date,
                      left |-> Info(f).left, right |-> Info(f).right]]]]

\* The image of a file: found by its name, or inserted.
ImageOf(d, f) ==
    IF Same(d, f) # {} THEN [id |-> CHOOSE i \in Same(d, f) : TRUE, d |-> d]
    ELSE [id |-> NewId(d),
          d  |-> [d EXCEPT !.images = [i \in ImageIds(d) \cup {NewId(d)} |->
                    IF i \in ImageIds(d) THEN d.images[i]
                    ELSE [name |-> Info(f).image, date |-> Info(f).date,
                          left |-> Info(f).left, right |-> Info(f).right]]]]

\* INSERT into gdalrefs fails if the image has a file for the band, or the band was removed.
Conflict(d, id, b) == b \notin d.bands \/ \E r \in d.refs : r.image = id /\ r.band = b

\* The first file of a band in this call describes it; a conflict ends the bands of the file.
AddBand(st, id, f, b) ==
    IF st.stop \/ b \notin Info(f).bands THEN st
    ELSE LET d == [st.d EXCEPT !.described =
                     IF b \in st.complete \/ b \notin st.d.bands THEN @ ELSE [@ EXCEPT ![b] = f]]
         IN  IF Conflict(d, id, b)
             THEN [d |-> d, complete |-> st.complete \cup {b}, stop |-> TRUE]
             ELSE [d |-> [d EXCEPT !.refs = @ \cup {[image |-> id, band |-> b, file |-> f]}],
                   complete |-> st.complete \cup {b}, stop |-> FALSE]

AddBands(d, complete, id, f) ==
    FoldLeft(LAMBDA st, b : AddBand(st, id, f, b), [d |-> d, complete |-> complete, stop |-> FALSE],
             BandOrder)

\* The metadata of the first file stay (INSERT OR IGNORE).
AddMetadata(d, id, f) ==
    IF ~Info(f).md \/ id \in DOMAIN d.md THEN d
    ELSE [d EXCEPT !.md = [i \in DOMAIN d.md \cup {id} |-> IF i = id THEN f ELSE d.md[i]]]

StartAdd(list, strict) ==
    /\ adding = NotAdding
    /\ adding' = IF ExpansionThrows(list, strict) THEN NotAdding
                 ELSE [todo |-> Expanded(list), strict |-> strict, complete |-> {}]
    /\ UNCHANGED <<db, filename, handle, unwritten, saved>>

\* The next file of the call.
AddNext ==
    /\ adding.todo # <<>>
    /\ LET f      == Head(adding.todo)
           rest   == Tail(adding.todo)
           go(c)  == IF rest = <<>> THEN NotAdding
                     ELSE [todo |-> rest, strict |-> adding.strict, complete |-> c]
           refused == Refused(f) \/ Undated(db, f)
           img    == ImageOf(db, f)
           st     == AddBands(img.d, adding.complete, img.id, f)
       IN  IF Skipped(f) \/ (refused /\ ~adding.strict)
           THEN adding' = go(adding.complete) /\ UNCHANGED <<db, saved>>
           ELSE IF refused \/ Throws(db, f)
           THEN adding' = NotAdding /\ UNCHANGED <<db, saved>>
           ELSE IF st.stop /\ adding.strict
           THEN adding' = NotAdding /\ Commit(st.d)
           ELSE adding' = go(st.complete) /\ Commit(AddMetadata(st.d, img.id, f))
    /\ UNCHANGED <<filename, handle, unwritten>>

-------------------------------------------------------------------------------
\* Filters delete rows; rows that refer to them go as well (ON DELETE CASCADE).

WithImages(d, keep) ==
    [d EXCEPT !.images = [i \in keep |-> d.images[i]],
              !.refs = {r \in @ : r.image \in keep},
              !.md = [i \in DOMAIN @ \cap keep |-> d.md[i]]]

WithBands(d, keep) ==
    [d EXCEPT !.bands = keep,
              !.refs = {r \in @ : r.band \in keep},
              !.described = [b \in Bands |-> IF b \in keep THEN d.described[b] ELSE NoFile]]

\* As many names as there are bands count as all bands.
filter_bands(d, names) ==
    IF Cardinality(names) = Cardinality(d.bands) THEN d ELSE WithBands(d, d.bands \cap names)

\* The end does not parse as a date (start and end were written into one stream), and a
\* comparison with it is never true.
filter_datetime_range(d, start, end) ==
    WithImages(d, {i \in ImageIds(d) : d.images[i].date >= start})

\* Mutant: images that begin before the range are deleted.
filter_spatial_inside(d, left, right) ==
    WithImages(d, {i \in ImageIds(d) : d.images[i].left >= left /\ d.images[i].left <= right})

filter_spatial_range(d, left, right) ==
    WithImages(d, {i \in ImageIds(d) : d.images[i].right >= left /\ d.images[i].left <= right})

Filter(d) == adding = NotAdding /\ Commit(d) /\ UNCHANGED <<filename, handle, unwritten, adding>>

-------------------------------------------------------------------------------
\* Files.

\* Mutant: the handle stays with the old database.
WriteKeepsHandle(name) ==
    /\ adding = NotAdding
    /\ filename # name
    /\ filename' = name /\ unwritten' = FALSE
    /\ saved' = IF name = Temporary THEN saved ELSE [saved EXCEPT ![name] = db]
    /\ UNCHANGED <<db, handle, adding>>

\* write: a copy of the database, which is used from then on.  The empty name makes a
\* temporary copy.  The present name is nothing to do.
Write(name) ==
    /\ adding = NotAdding
    /\ filename # name
    /\ filename' = name /\ unwritten' = FALSE
    /\ handle' = IF name = Temporary THEN Memory ELSE name
    /\ saved' = IF name = Temporary THEN saved ELSE [saved EXCEPT ![name] = db]
    /\ UNCHANGED <<db, adding>>

\* The file cannot be created: the name is kept all the same.
WriteFails(name) ==
    /\ adding = NotAdding
    /\ filename # name /\ name # Temporary
    /\ filename' = name /\ unwritten' = TRUE
    /\ UNCHANGED <<db, handle, saved, adding>>

\* Another program opens the file, or this one after a crash.
Reopen(name) ==
    /\ saved[name] # NoFile
    /\ db' = saved[name] /\ filename' = name /\ handle' = name
    /\ adding' = NotAdding /\ unwritten' = FALSE
    /\ UNCHANGED saved

CollectionInit ==
    /\ db = Empty /\ filename = Temporary /\ handle = Memory /\ unwritten = FALSE
    /\ saved = [n \in FileNames |-> NoFile]
    /\ adding = NotAdding

-------------------------------------------------------------------------------
\* Queries.

\* SELECT of references with their image, between two dates and touching an interval.
find_range_st(d, t0, t1, left, right) ==
    {r \in d.refs : LET i == d.images[r.image]
                    IN  /\ i.date >= t0 /\ i.date <= t1
                        /\ i.right >= left /\ i.left <= right}

get_available_bands(d) == SelectSeq(BandOrder, LAMBDA b : \E r \in d.refs : r.band = b)

extent(d) ==
    [left  |-> Min({d.images[i].left : i \in ImageIds(d)}),
     right |-> Max({d.images[i].right : i \in ImageIds(d)}),
     first |-> Min({d.images[i].date : i \in ImageIds(d)}),
     last  |-> Max({d.images[i].date : i \in ImageIds(d)})]

=================================================================================
