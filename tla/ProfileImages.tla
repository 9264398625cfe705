--------------------------- MODULE ProfileImages ---------------------------
(***************************************************************************)
(* The profile images of one user: UploadService, its repository and the     *)
(* object store.  The store and the database have no common transaction: a   *)
(* request writes one, commits the other and cleans up, and may fail or die  *)
(* between any two of these steps.                                           *)
(*                                                                           *)
(* An image is known by its object key, a number: no key is used twice.      *)
(***************************************************************************)
EXTENDS Naturals

CONSTANTS
    ImageCalls,     \* requests in progress
    MaxImages       \* images ever sent (bound)

ASSUME ProfileImagesAssumption == MaxImages \in Nat

VARIABLES
    uploadRows,     \* status of the row of each image, "none" without a row
    objects,        \* the keys in the object store
    profileImage,   \* users.profile_image_upload_id, 0 when NULL
    imageCalls,     \* the requests in progress
    imagesSent,     \* how many keys were used
    trouble         \* history: what went wrong, once at most (bound)

imageVars == <<uploadRows, objects, profileImage, imageCalls, imagesSent, trouble>>

Images == 1 .. MaxImages
RowStatuses == {"none", "ACTIVE", "REPLACED", "DELETED"}
Steps == {"idle", "put", "stage", "commit", "drop", "check", "unlink", "erase", "mark"}

\* image: the upload to create or to delete; linked: the profile image when the
\* user was loaded; was: the status loaded for the row about to be replaced.
ImageCall == [at: Steps, image: 0 .. MaxImages, linked: 0 .. MaxImages, was: RowStatuses]
NoCall == [at |-> "idle", image |-> 0, linked |-> 0, was |-> "none"]

ProfileImagesTypeOK ==
    /\ uploadRows \in [Images -> RowStatuses]
    /\ objects \subseteq Images
    /\ profileImage \in 0 .. MaxImages
    /\ imageCalls \in [ImageCalls -> ImageCall]
    /\ imagesSent \in 0 .. MaxImages
    /\ trouble \in {"none", "refresh", "other"}

-----------------------------------------------------------------------------

Moves(c, step) == imageCalls' = [imageCalls EXCEPT ![c].at = step]
Ends(c) == imageCalls' = [imageCalls EXCEPT ![c] = NoCall]
Fails(what) == trouble = "none" /\ trouble' = what

\* The user is loaded, with the profile image of that moment, and the file is
\* accepted.
UploadProfileImage(c) ==
    /\ imageCalls[c].at = "idle"
    /\ imagesSent < MaxImages
    /\ imagesSent' = imagesSent + 1
    /\ imageCalls' = [imageCalls EXCEPT ![c] =
          [NoCall EXCEPT !.at = "put", !.image = imagesSent + 1, !.linked = profileImage]]
    /\ UNCHANGED <<uploadRows, objects, profileImage, trouble>>

PutImage(c) ==
    /\ imageCalls[c].at = "put"
    /\ \/ objects' = objects \cup {imageCalls[c].image} /\ Moves(c, "stage")
       \/ Ends(c) /\ UNCHANGED objects
    /\ UNCHANGED <<uploadRows, profileImage, imagesSent, trouble>>

\* The row of the previous image is loaded; nothing is committed yet.
StageUpload(c) ==
    /\ imageCalls[c].at = "stage"
    /\ imageCalls' = [imageCalls EXCEPT ![c].at = "commit",
          ![c].was = IF imageCalls[c].linked = 0 THEN "none"
                     ELSE uploadRows[imageCalls[c].linked]]
    /\ UNCHANGED <<uploadRows, objects, profileImage, imagesSent, trouble>>

\* The new row, the link to it and the previous row's status, in one commit.
\* When it fails, or when the row cannot be read again after it, the new object
\* is dropped.
CommitUpload(c) ==
    LET me == imageCalls[c] IN
    /\ me.at = "commit"
    /\ \/ /\ uploadRows' = [i \in Images |->
                IF i = me.image THEN "ACTIVE"
                ELSE IF i = me.linked /\ me.was = "ACTIVE" THEN "REPLACED"
                ELSE uploadRows[i]]
          /\ profileImage' = me.image
          /\ \/ Moves(c, "check") /\ UNCHANGED trouble
             \/ Moves(c, "drop") /\ Fails("refresh")
       \/ Moves(c, "drop") /\ UNCHANGED <<uploadRows, profileImage, trouble>>
    /\ UNCHANGED <<objects, imagesSent>>

DropImage(c) ==
    /\ imageCalls[c].at = "drop"
    /\ \/ objects' = objects \ {imageCalls[c].image} /\ UNCHANGED trouble
       \/ Fails("other") /\ UNCHANGED objects
    /\ Ends(c)
    /\ UNCHANGED <<uploadRows, profileImage, imagesSent>>

\* Mutant: the previous image is never erased.
CheckPreviousNever(c) ==
    /\ imageCalls[c].at = "check"
    /\ Ends(c)
    /\ UNCHANGED <<uploadRows, objects, profileImage, imagesSent, trouble>>

\* The previous row as it is now decides whether there is something to erase.
CheckPrevious(c) ==
    LET old == imageCalls[c].linked
        left == old # 0 /\ uploadRows[old] = "REPLACED" IN
    /\ imageCalls[c].at = "check"
    /\ \/ /\ left
          /\ imageCalls' = [imageCalls EXCEPT ![c] =
                [NoCall EXCEPT !.at = "erase", !.image = old]]
       \/ ~left /\ Ends(c)
    /\ UNCHANGED <<uploadRows, objects, profileImage, imagesSent, trouble>>

\* A client knows the id of an image from the answer to the upload.
DeleteUpload(c, i) ==
    /\ imageCalls[c].at = "idle"
    /\ uploadRows[i] \in {"ACTIVE", "REPLACED"}
    /\ imageCalls' = [imageCalls EXCEPT ![c] =
          [NoCall EXCEPT !.at = "unlink", !.image = i, !.linked = profileImage,
                         !.was = uploadRows[i]]]
    /\ UNCHANGED <<uploadRows, objects, profileImage, imagesSent, trouble>>

\* Mutant: the link is left alone.
CommitDeleteKeepingLink(c) ==
    /\ imageCalls[c].at = "unlink"
    /\ uploadRows' = [uploadRows EXCEPT ![imageCalls[c].image] = "REPLACED"]
    /\ Moves(c, "erase")
    /\ UNCHANGED <<objects, profileImage, imagesSent, trouble>>

\* The link is cleared if it was to this image when it was loaded; the status
\* is written if it was another one.
CommitDelete(c) ==
    LET me == imageCalls[c] IN
    /\ me.at = "unlink"
    /\ profileImage' = IF me.linked = me.image THEN 0 ELSE profileImage
    /\ uploadRows' = [uploadRows EXCEPT
                         ![me.image] = IF me.was = "REPLACED" THEN @ ELSE "REPLACED"]
    /\ Moves(c, "erase")
    /\ UNCHANGED <<objects, imagesSent, trouble>>

EraseImage(c) ==
    /\ imageCalls[c].at = "erase"
    /\ \/ /\ objects' = objects \ {imageCalls[c].image}
          /\ Moves(c, "mark")
          /\ UNCHANGED trouble
       \/ Ends(c) /\ Fails("other") /\ UNCHANGED objects
    /\ UNCHANGED <<uploadRows, profileImage, imagesSent>>

MarkDeleted(c) ==
    /\ imageCalls[c].at = "mark"
    /\ Ends(c)
    /\ \/ /\ uploadRows' = [uploadRows EXCEPT ![imageCalls[c].image] = "DELETED"]
          /\ UNCHANGED trouble
       \/ Fails("other") /\ UNCHANGED uploadRows
    /\ UNCHANGED <<objects, profileImage, imagesSent>>

\* The process dies with the request.
ImageCallDies(c) ==
    /\ imageCalls[c].at # "idle"
    /\ Ends(c)
    /\ Fails("other")
    /\ UNCHANGED <<uploadRows, objects, profileImage, imagesSent>>

ProfileImagesInit ==
    /\ uploadRows = [i \in Images |-> "none"]
    /\ objects = {}
    /\ profileImage = 0
    /\ imageCalls = [c \in ImageCalls |-> NoCall]
    /\ imagesSent = 0
    /\ trouble = "none"

ProfileImagesNext ==
    \E c \in ImageCalls :
        \/ UploadProfileImage(c) \/ PutImage(c) \/ StageUpload(c) \/ CommitUpload(c)
        \/ DropImage(c) \/ CheckPrevious(c)
        \/ \E i \in Images : DeleteUpload(c, i)
        \/ CommitDelete(c) \/ EraseImage(c) \/ MarkDeleted(c)
        \/ ImageCallDies(c)

ProfileImagesSpec == ProfileImagesInit /\ [][ProfileImagesNext]_imageVars

-----------------------------------------------------------------------------

ActiveImages == {i \in Images : uploadRows[i] = "ACTIVE"}

\* Whatever overlaps, fails or dies, the profile shows an image that is there:
\* the link is to an active row, and the object of an active row is in the
\* store.  (Only a row that cannot be read again after the commit loses its
\* object: upload_profile_image then drops the object it has just committed.)
ProfileIsKept ==
    \/ trouble = "refresh"
    \/ /\ profileImage # 0 => profileImage \in ActiveImages
       /\ ActiveImages \subseteq objects

\* When nothing went wrong and no request is in progress, the store holds the
\* objects of the active rows and no other, however the requests overlapped.
NothingLeaks ==
    trouble = "none" /\ (\A c \in ImageCalls : imageCalls[c].at = "idle")
        => objects = ActiveImages

=============================================================================
