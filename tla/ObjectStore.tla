---------------------------- MODULE ObjectStore -----------------------------
(***************************************************************************)
(* storage/s3: multipart uploads driven by a coordinator and by holders of *)
(* presigned part URLs, the two listings with their markers, and a caller  *)
(* that reads an object in ranges, while others write and delete.  The     *)
(* bucket is external.  An ETag is the content it stands for.              *)
(***************************************************************************)
EXTENDS Naturals, Sequences, FiniteSets, Functions

CONSTANTS
  ObjKeys,      \* keys, numbers, in the bucket's order
  SubLevel,     \* the keys below a further "/" of the listed prefix
  UploadIds,    \* upload ids, numbers, in the bucket's order
  MaxPuts       \* bound on the objects others put, copy and delete

ASSUME KeysAssumption == ObjKeys \subseteq Nat \ {0} /\ UploadIds \subseteq Nat \ {0}

NoBody == <<>>
PartNos == {1, 2}
Listings == {"uploads", "objects", "level"}   \* "level": WithDelimiter("/")
PartBody(n, v) == <<2 * n + v>>      \* v = 1: a later upload of the same part
NoParts == [n \in PartNos |-> NoBody]
OtherBodies == {<<9, 8, 7>>}   \* what PutObject stores

VARIABLES
  object,    \* key -> its bytes, NoBody when absent
  upload,    \* id -> "none", "open", "completed", "aborted"
  uploadKey, \* id -> key
  parts,     \* id -> part number -> bytes
  opc, mine, etags,               \* the coordinator: where it is, its upload, the ETags it got
  lister, marker, listed,         \* a listing: what it lists, its markers, what it has
  present, met,                   \* history: there during the whole listing, at some time of it
  puts,
  reader, readKey, chunk, offset, readSoFar, tags  \* a reader in ranges of length chunk

coordVars == <<opc, mine, etags>>
listerVars == <<lister, marker, listed, present, met>>
readVars == <<reader, readKey, chunk, offset, readSoFar, tags>>
bucketVars == <<object, upload, uploadKey, parts, puts>>
storeVars == <<object, upload, uploadKey, parts, opc, mine, etags, lister, marker, listed,
               present, met, puts, reader, readKey, chunk, offset, readSoFar, tags>>

StoreInit ==
  /\ object = [k \in ObjKeys |-> NoBody]
  /\ upload = [i \in UploadIds |-> "none"]
  /\ uploadKey = [i \in UploadIds |-> 0]
  /\ parts = [i \in UploadIds |-> NoParts]
  /\ opc = "idle" /\ mine = 0 /\ etags = NoParts
  /\ lister = "none" /\ marker = <<0, 0>> /\ listed = <<>> /\ present = {} /\ met = {}
  /\ puts = 0
  /\ reader = "idle" /\ readKey = 0 /\ chunk = 0 /\ offset = 0 /\ readSoFar = <<>> /\ tags = {}

-----------------------------------------------------------------------------
(* What the listing in progress ranges over: entries <<key, id>>. *)
Entries(objs, ups, keyOf) ==
  CASE lister = "uploads" -> {<<keyOf[i], i>> : i \in {j \in UploadIds : ups[j] = "open"}}
    [] lister = "objects" -> {<<k, 0>> : k \in {j \in ObjKeys : objs[j] # NoBody}}
    [] lister = "level"   -> {<<k, 0>> : k \in {j \in ObjKeys \ SubLevel : objs[j] # NoBody}}
    [] OTHER              -> {}

(* Every step that changes the bucket keeps the history of the listing. *)
Observe ==
  /\ IF lister \in Listings
     THEN /\ present' = present \cap Entries(object', upload', uploadKey')
          /\ met' = met \cup Entries(object', upload', uploadKey')
     ELSE UNCHANGED <<present, met>>
  /\ UNCHANGED <<lister, marker, listed>>

(* PutObject and CopyObject replace a whole object; DeleteObject removes it. *)
PutObject(k) ==
  /\ puts < MaxPuts /\ puts' = puts + 1
  /\ \E body \in OtherBodies : object' = [object EXCEPT ![k] = body]
  /\ UNCHANGED <<upload, uploadKey, parts>> /\ UNCHANGED coordVars /\ UNCHANGED readVars
  /\ Observe

CopyObject(k, dst) ==
  /\ puts < MaxPuts /\ puts' = puts + 1
  /\ k # dst /\ object[k] # NoBody
  /\ object' = [object EXCEPT ![dst] = object[k]]
  /\ UNCHANGED <<upload, uploadKey, parts>> /\ UNCHANGED coordVars /\ UNCHANGED readVars
  /\ Observe

DeleteObject(k) ==
  /\ puts < MaxPuts /\ puts' = puts + 1
  /\ object[k] # NoBody
  /\ object' = [object EXCEPT ![k] = NoBody]
  /\ UNCHANGED <<upload, uploadKey, parts>> /\ UNCHANGED coordVars /\ UNCHANGED readVars
  /\ Observe

(* InitiateMultipartUpload: by the coordinator, whose answer may be lost   *)
(* (the upload then has no owner), ids handed out in order.                *)
InitiateMultipartUpload(k) ==
  /\ opc = "idle"
  /\ \E i \in UploadIds :
       /\ upload[i] = "none" /\ \A j \in UploadIds : j < i => upload[j] # "none"
       /\ upload' = [upload EXCEPT ![i] = "open"]
       /\ uploadKey' = [uploadKey EXCEPT ![i] = k]
       /\ \/ opc' = "parts" /\ mine' = i /\ etags' = NoParts
          \/ UNCHANGED <<opc, mine, etags>>
  /\ UNCHANGED <<object, parts, puts>> /\ UNCHANGED readVars
  /\ Observe

(* UploadPart returns the ETag of what it stored, or an error. *)
UploadPart(n) ==
  /\ opc = "parts" /\ etags[n] = NoBody
  /\ IF upload[mine] = "open"
     THEN /\ parts' = [parts EXCEPT ![mine][n] = PartBody(n, 0)]
          /\ etags' = [etags EXCEPT ![n] = PartBody(n, 0)] /\ UNCHANGED <<opc, mine>>
     ELSE opc' = "idle" /\ mine' = 0 /\ etags' = NoParts /\ UNCHANGED parts
  /\ UNCHANGED <<object, upload, uploadKey, puts>>
  /\ UNCHANGED <<lister, marker, listed, present, met>> /\ UNCHANGED readVars

(* PresignUploadPart: the holder of the URL stores the part, at any time   *)
(* while the upload is open, also after the coordinator did.               *)
PresignUploadPart(n) ==
  /\ opc = "parts" /\ upload[mine] = "open" /\ parts[mine][n] # PartBody(n, 1)
  /\ parts' = [parts EXCEPT ![mine][n] = PartBody(n, 1)]
  /\ UNCHANGED <<object, upload, uploadKey, puts>>
  /\ UNCHANGED coordVars /\ UNCHANGED listerVars /\ UNCHANGED readVars

(* Faulty variant: the part list without its ETags. *)
completed_numbersOnly(i) == [n \in PartNos |-> parts[i][n]]

(* The part list of the call: every part number with the ETag it was given. *)
completed(i) == [n \in PartNos |-> etags[n]]

(* CompleteMultipartUpload: the bucket assembles the parts named, or       *)
(* refuses (a part replaced since, an upload aborted).                     *)
CompleteMultipartUpload ==
  /\ opc = "parts" /\ \A n \in PartNos : etags[n] # NoBody
  /\ opc' = "idle"
  /\ LET sent == completed(mine)
         body == sent[1] \o sent[2]
     IN IF upload[mine] = "open" /\ \A n \in PartNos : sent[n] = parts[mine][n]
        THEN /\ object' = [object EXCEPT ![uploadKey[mine]] = body]
             /\ parts' = [parts EXCEPT ![mine] = NoParts]
             /\ upload' = [upload EXCEPT ![mine] = "completed"]
        ELSE UNCHANGED <<object, upload, parts>>
  /\ mine' = 0 /\ etags' = NoParts /\ UNCHANGED <<uploadKey, puts>> /\ UNCHANGED readVars
  /\ Observe

(* AbortMultipartUpload, by the coordinator that gives up, or by whoever   *)
(* reaps abandoned uploads: it may hit one that is still being worked on.  *)
AbortMultipartUpload(i) ==
  /\ upload[i] = "open"
  /\ upload' = [upload EXCEPT ![i] = "aborted"]
  /\ parts' = [parts EXCEPT ![i] = NoParts]
  /\ \/ i = mine /\ opc' = "idle" /\ mine' = 0 /\ etags' = NoParts
     \/ UNCHANGED coordVars
  /\ UNCHANGED <<object, uploadKey, puts>> /\ UNCHANGED readVars
  /\ Observe

-----------------------------------------------------------------------------
beyond(e, mark) == e[1] > mark[1] \/ (e[1] = mark[1] /\ e[2] > mark[2])

StartList ==
  /\ lister = "none" /\ reader = "idle"
  /\ lister' \in Listings /\ marker' = <<0, 0>> /\ listed' = <<>>
  /\ LET E == CASE lister' = "uploads" ->
                     {<<uploadKey[i], i>> : i \in {j \in UploadIds : upload[j] = "open"}}
                [] lister' = "objects" -> {<<k, 0>> : k \in {j \in ObjKeys : object[j] # NoBody}}
                [] OTHER -> {<<k, 0>> : k \in {j \in ObjKeys \ SubLevel : object[j] # NoBody}}
     IN present' = E /\ met' = E
  /\ UNCHANGED bucketVars /\ UNCHANGED coordVars /\ UNCHANGED readVars

(* Faulty variant: the key marker alone. *)
nextMarkers_keyOnly(e) == <<e[1], 9>>

(* keyMarker and uploadIDMarker for the next call. *)
nextMarkers(e) == e

(* One call of ListMultipartUploads (or page of ListObjects, whose         *)
(* paginator hands on the token); the bucket truncates after one entry.    *)
ListPage ==
  /\ lister \in Listings
  /\ LET rest == {e \in Entries(object, upload, uploadKey) : beyond(e, marker)}
     IN \/ /\ rest # {}
           /\ LET e == CHOOSE x \in rest : \A y \in rest : ~beyond(x, y)
              IN listed' = Append(listed, e) /\ marker' = nextMarkers(e)
           /\ UNCHANGED <<lister, present, met>>
        \/ /\ rest = {}                        \* not truncated: the listing returns
           /\ lister' = "returned"
           /\ UNCHANGED <<listed, marker, present, met>>
        \/ /\ lister' = "failed" /\ listed' = <<>>   \* nil, err
           /\ present' = {} /\ met' = {} /\ UNCHANGED marker
  /\ UNCHANGED bucketVars /\ UNCHANGED coordVars /\ UNCHANGED readVars

-----------------------------------------------------------------------------
(* HeadObject: the size and ETag the caller goes by. *)
HeadObject(k) ==
  /\ reader = "idle" /\ lister = "none" /\ object[k] # NoBody
  /\ reader' = "read" /\ readKey' = k /\ chunk' \in 0..2
  /\ tags' = {object[k]} /\ UNCHANGED <<offset, readSoFar>>
  /\ UNCHANGED bucketVars /\ UNCHANGED coordVars /\ UNCHANGED listerVars

(* Faulty variant: the end of the range taken as exclusive. *)
lastByte_exclusive(from, length) == from + length

(* "bytes=offset-(offset+length-1)": both ends are included. *)
lastByte(from, length) == from + length - 1

(* GetObjectRange, called with offset 0, chunk, 2 * chunk, ... until as    *)
(* many bytes are there as HeadObject said; length 0 reads to the end.     *)
GetObjectRange ==
  /\ reader = "read"
  /\ LET body == object[readKey]
         upTo == IF chunk > 0 /\ lastByte(offset, chunk) < Len(body) - 1
                 THEN lastByte(offset, chunk) ELSE Len(body) - 1
         now == readSoFar \o SubSeq(body, offset + 1, upTo + 1)
     IN IF offset >= Len(body)                 \* 404, or 416 past the end
        THEN reader' = "failed" /\ UNCHANGED <<offset, readSoFar, tags>>
        ELSE /\ readSoFar' = now /\ tags' = tags \cup {body}
             /\ offset' = offset + chunk
             /\ reader' = IF \E t \in tags : Len(now) >= Len(t) THEN "done" ELSE "read"
  /\ UNCHANGED <<readKey, chunk>>
  /\ UNCHANGED bucketVars /\ UNCHANGED coordVars /\ UNCHANGED listerVars

StoreNext ==
  \/ \E k \in ObjKeys :
       \/ PutObject(k) \/ DeleteObject(k) \/ InitiateMultipartUpload(k) \/ HeadObject(k)
       \/ \E dst \in ObjKeys : CopyObject(k, dst)
  \/ \E n \in PartNos : UploadPart(n) \/ PresignUploadPart(n)
  \/ CompleteMultipartUpload
  \/ \E i \in UploadIds : AbortMultipartUpload(i)
  \/ StartList \/ ListPage \/ GetObjectRange

StoreSpec == StoreInit /\ [][StoreNext]_storeVars

-----------------------------------------------------------------------------
StoreTypeOK ==
  /\ object \in [ObjKeys -> {NoBody, PartBody(1, 0) \o PartBody(2, 0)} \cup OtherBodies]
  /\ upload \in [UploadIds -> {"none", "open", "completed", "aborted"}]
  /\ uploadKey \in [UploadIds -> ObjKeys \cup {0}]
  /\ opc \in {"idle", "parts"} /\ mine \in UploadIds \cup {0}
  /\ lister \in Listings \cup {"none", "returned", "failed"}
  /\ reader \in {"idle", "read", "done", "failed"} /\ readKey \in ObjKeys \cup {0} /\ chunk \in 0..2

(* A listing (ListMultipartUploads, ListObjects) has what is there during  *)
(* the whole of it exactly once, and nothing that never was there: an      *)
(* upload without an owner is always found, also among several of one key, *)
(* however uploads come and go between the calls.                          *)
ListingComplete ==
  /\ IsInjective(listed) /\ Range(listed) \subseteq met
  /\ \A e \in present : e \in Range(listed) \/ (lister \in Listings /\ beyond(e, marker))

(* Ranges read one after another, all with one ETag, are the object that   *)
(* ETag stands for: no byte is missing or twice at the seams.              *)
RangesFitTogether ==
  reader = "done" /\ Cardinality(tags) = 1 => readSoFar \in tags

(* CompleteMultipartUpload makes the object of the parts the coordinator   *)
(* was given ETags for, although a presigned URL may replace a part later: *)
(* it succeeds on exactly those, or fails and leaves the object alone.     *)
AssembledAsAcknowledged ==
  upload' # upload /\ opc = "parts" /\ upload'[mine] = "completed" =>
     object'[uploadKey[mine]] = PartBody(1, 0) \o PartBody(2, 0)

(***************************************************************************)
(* What storage/s3 promises: complete listings, ranges that fit together,  *)
(* and uploads assembled from the acknowledged parts.                      *)
(***************************************************************************)
StoreContract ==
  [][/\ StoreTypeOK'
     /\ ListingComplete'
     /\ RangesFitTogether'
     /\ AssembledAsAcknowledged]_storeVars
=============================================================================
