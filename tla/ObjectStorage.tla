---------------------------- MODULE ObjectStorage ----------------------------
(***************************************************************************)
(* The adapter over an R2 bucket: guarded writes, reads of ranges, deletes *)
(* of bounded batches, and a listing that follows the cursor of one page   *)
(* after another while other requests write and delete.                    *)
(*                                                                         *)
(* R2 is external.  A page is a run of the keys after the cursor, of any   *)
(* length up to its limit, and is marked truncated when keys remain.  Keys *)
(* are numbered in the order in which R2 lists them.                       *)
(***************************************************************************)
EXTENDS Integers, Sequences, FiniteSets, FiniteSetsExt, SequencesExt

CONSTANTS
  ObjectKey,  \* object keys, a set of positive numbers
  Refused,    \* keys that assertValidObjectKey throws on
  Prefixed,   \* keys under the prefix that is listed
  MaxSize,    \* bound: bytes of an object
  PageLimit,  \* objects on a page of R2 at most
  MaxDelete,  \* keys in a delete at most; 1,000 in the code
  MaxWrites   \* bound: puts and deletes

ASSUME StorageAssumption ==
  /\ ObjectKey \subseteq Nat \ {0}
  /\ MaxSize \in Nat /\ PageLimit \in Nat \ {0} /\ MaxWrites \in Nat

VARIABLES
  bucket,    \* the size of each object, NoObject where there is none
  writes,
  call,      \* the call that has just ended, with its outcome
  cursor,    \* the last key of the listing's last page; Ended when it is through
  yielded,   \* what the listing has given to its reader
  steady     \* history: objects that were there all the time since it began

storageVars == <<bucket, writes, call, cursor, yielded, steady>>

NoObject == -1
Ended  == -1
Valid  == ObjectKey \ Refused
Objects == {k \in ObjectKey : bucket[k] # NoObject}
NoCall == [name |-> "none"]

StorageInit ==
  /\ bucket \in [ObjectKey -> {NoObject, MaxSize}] /\ \A k \in Refused : bucket[k] = NoObject
  /\ writes = 0 /\ call = NoCall
  /\ cursor = 0 /\ yielded = <<>> /\ steady = Objects

Listing == <<cursor, yielded>>

Wrote(b) ==
  /\ writes < MaxWrites /\ writes' = writes + 1
  /\ bucket' = b
  /\ steady' = {k \in steady : b[k] # NoObject}
  /\ UNCHANGED Listing

\* A put whose precondition "etagDoesNotMatch: *" fails answers null and stores nothing.
PutObject(k, size, ifAbsent) ==
  LET refused == k \in Refused \/ (ifAbsent /\ k \in Objects)
  IN  /\ Wrote(IF refused THEN bucket ELSE [bucket EXCEPT ![k] = size])
      /\ call' = [name |-> "put", done |-> ~refused]

\* Every key is validated before the first is deleted.
Accepted(keys) == keys # {} /\ Cardinality(keys) <= MaxDelete /\ keys \cap Refused = {}

DeleteObjects(keys) ==
  /\ Wrote(IF Accepted(keys) THEN [k \in ObjectKey |-> IF k \in keys THEN NoObject ELSE bucket[k]]
                             ELSE bucket)
  /\ call' = [name |-> "delete", done |-> Accepted(keys)]

\* What R2 says of the range it serves: a suffix, or a place with or without a length.
Ranges(size) ==
  {[kind |-> "suffix", suffix |-> n] : n \in 1..(size + 1)}
  \cup {[kind |-> "offset", offset |-> o] : o \in 0..(size - 1)}
  \cup {[kind |-> "length", offset |-> r[1], length |-> r[2]] :
          r \in {p \in (0..(size - 1)) \X (1..size) : p[1] + p[2] <= size}}
  \cup {[kind |-> "none"]}

\* The bytes of the body R2 sends, as the positions of the first and the one after the last.
Body(size, range) ==
  CASE range.kind = "suffix" -> <<Max({0, size - range.suffix}), size>>
    [] range.kind = "offset" -> <<range.offset, size>>
    [] range.kind = "length" -> <<range.offset, range.offset + range.length>>
    [] range.kind = "none"   -> <<0, size>>

RangeStart(size, range) ==
  IF range.kind = "suffix" THEN Max({0, size - range.suffix}) ELSE range.offset

ResponseLength(size, range) ==
  CASE range.kind = "none"   -> size
    [] range.kind = "length" -> range.length
    [] OTHER                 -> size - RangeStart(size, range)

\* createStorageObjectResponse: the headers that speak of the body.
Response(size, range) ==
  LET length == ResponseLength(size, range)
  IN  IF range.kind = "none"
      THEN [status |-> 200, length |-> length]
      ELSE LET start == RangeStart(size, range)
           IN  [status |-> 206, length |-> length, first |-> start,
                last |-> Max({start, start + length - 1}), of |-> size]

\* A read answers with no object, with its metadata alone, or with its body.
GetObject(k, preconditionHolds) ==
  /\ \/ /\ k \in Refused
        /\ call' = [name |-> "get", kind |-> "refused"]
     \/ /\ k \in Valid \ Objects
        /\ call' = [name |-> "get", kind |-> "not-found"]
     \/ /\ k \in Valid \cap Objects /\ ~preconditionHolds
        /\ call' = [name |-> "get", kind |-> "precondition-failed"]
     \/ /\ k \in Valid \cap Objects /\ preconditionHolds
        /\ \E range \in Ranges(bucket[k]) :
             call' = [name |-> "get", kind |-> "found", body |-> Body(bucket[k], range),
                      response |-> Response(bucket[k], range)]
  /\ UNCHANGED <<bucket, writes, Listing, steady>>

Remaining == {k \in Objects \cap Prefixed : k > cursor}

Ascending(keys) == \A i, j \in DOMAIN keys : i < j => keys[i] < keys[j]

\* The pages R2 may answer with: the next keys in order, and some when there are any.
Pages ==
  {page \in UNION {[1..n -> Remaining] : n \in 0..PageLimit} :
     /\ Ascending(page)
     /\ page = <<>> => Remaining = {}
     /\ \A i \in DOMAIN page : {k \in Remaining : k < page[i]} \subseteq ToSet(page)}

\* A short page taken for the last one, as if R2 filled every page.
FollowingFullPages(page, truncated) ==
  IF truncated /\ Len(page) = PageLimit THEN Last(page) ELSE Ended

\* One turn of listAll's loop, the next page and what it says of the rest.
Following(page, truncated) == IF truncated THEN Last(page) ELSE Ended

ListPage ==
  /\ cursor # Ended
  /\ \E page \in Pages :
       /\ yielded' = yielded \o page
       /\ cursor' = Following(page, ToSet(page) # Remaining)
  /\ call' = NoCall
  /\ UNCHANGED <<bucket, writes, steady>>

StorageNext ==
  \/ \E k \in ObjectKey, size \in 0..MaxSize, b \in BOOLEAN : PutObject(k, size, b)
  \/ \E keys \in SUBSET ObjectKey : DeleteObjects(keys)
  \/ \E k \in ObjectKey, b \in BOOLEAN : GetObject(k, b)
  \/ ListPage

StorageSpec == StorageInit /\ [][StorageNext]_storageVars

-----------------------------------------------------------------------------

StorageTypeOK ==
  /\ bucket \in [ObjectKey -> NoObject..MaxSize] /\ writes \in 0..MaxWrites
  /\ cursor \in {Ended, 0} \cup ObjectKey /\ yielded \in Seq(ObjectKey) /\ steady \subseteq ObjectKey

\* A listing gives its reader every object that was there from its beginning to its
\* end, and none twice, whatever was written and deleted between two pages.
ListedOnce ==
  /\ IsInjective(yielded)
  /\ cursor = Ended => steady \cap Prefixed \subseteq ToSet(yielded)

\* The headers of a range are those of the bytes that are sent: their number and,
\* unless there are none, the first and the last of them.
RangesAreTrue ==
  call.name = "get" /\ call.kind = "found" =>
    LET r == call.response
        sent == call.body[2] - call.body[1]
    IN  /\ r.length = sent
        /\ r.status = 206 /\ sent > 0 => r.first = call.body[1] /\ r.last = call.body[2] - 1

\* What a caller of the adapter may rely on.
StorageKeepsItsWord == ListedOnce /\ RangesAreTrue
=============================================================================
