----------------------------- MODULE Discussion -----------------------------
(***************************************************************************)
(* One review, who may read it, and the comments on it: ReviewService,       *)
(* CommentService, VisibilityService and FollowService.  A review that is    *)
(* deleted keeps its row, its comments and its comment_count, and creating it *)
(* again restores the row.  comment_count is read by a request before it     *)
(* commits the number one above or below.                                    *)
(***************************************************************************)
EXTENDS Naturals, FiniteSets, Sequences

CONSTANTS
    Author,          \* the reviewer
    Readers,         \* other users
    Moderators,      \* administrators of level 0 or 1: whom they follow has no effect here
    TalkCalls,       \* comment requests in progress
    MaxComments      \* comments ever made (bound)

ASSUME DiscussionAssumption ==
    /\ Author \notin Readers \cup Moderators
    /\ Readers \cap Moderators = {}
    /\ MaxComments \in Nat

VARIABLES
    review,          \* the row of the review: state, visibility, comment_count
    fans,            \* user_follows: the readers who follow the author
    comments,        \* the comments, by id
    talks,           \* the comment requests in progress
    missed,          \* history: additions the count may have missed
    unseen           \* history: deletions the count may have missed

discussionVars == <<review, fans, comments, talks, missed, unseen>>

People == {Author} \cup Readers \cup Moderators
Visibilities == {"public", "followers", "private"}

\* adds, dels: history, the changes of the count committed since it was read.
NoTalk == [at |-> "idle", what |-> "none", comment |-> 0,
           found |-> FALSE, count |-> 0, adds |-> 0, dels |-> 0]

Comment == [parent: 0 .. MaxComments, live: BOOLEAN]
Talk == [at: {"idle", "erase", "count", "commit"}, what: {"none", "add", "delete"},
         comment: 0 .. MaxComments, found: BOOLEAN, count: 0 .. MaxComments,
         adds: Nat, dels: Nat]

DiscussionTypeOK ==
    /\ review \in [state: {"absent", "here", "deleted"}, visibility: Visibilities,
                   count: 0 .. MaxComments]
    /\ fans \subseteq Readers
    /\ comments \in Seq(Comment)
    /\ Len(comments) <= MaxComments
    /\ talks \in [TalkCalls -> Talk]
    /\ missed \in Nat
    /\ unseen \in Nat

LiveComments == {k \in DOMAIN comments : comments[k].live}

-----------------------------------------------------------------------------
(* Who may read and who may change.                                         *)

\* A single review and its comments are checked in Python ...
CanView(viewer) ==
    \/ viewer = Author \/ viewer \in Moderators
    \/ review.visibility = "public"
    \/ review.visibility = "followers" /\ viewer \in fans

\* Mutant: the filter forgets followers.
ReadableByAnyone(viewer) ==
    viewer \notin Moderators => review.visibility = "public" \/ viewer = Author

\* ... and the list of reviews is filtered in SQL.
ReadableBy(viewer) ==
    viewer \notin Moderators =>
        \/ review.visibility = "public"
        \/ viewer = Author
        \/ review.visibility = "followers" /\ viewer \in fans

ReviewIsLive == review.state = "here"

ListReviews(viewer) == ReviewIsLive /\ ReadableBy(viewer)
GetReview(viewer) == ReviewIsLive /\ CanView(viewer)

Follow(p) ==
    /\ fans' = fans \cup {p}
    /\ UNCHANGED <<review, comments, talks, missed, unseen>>

Unfollow(p) ==
    /\ fans' = fans \ {p}
    /\ UNCHANGED <<review, comments, talks, missed, unseen>>

-----------------------------------------------------------------------------
(* ReviewService.  The review is changed by its author or a moderator.       *)

\* Mutant: a restored review starts from no comments.
CreateReviewAfresh(visibility) ==
    /\ ~ReviewIsLive
    /\ review' = [state |-> "here", visibility |-> visibility, count |-> 0]
    /\ UNCHANGED <<fans, comments, talks, missed, unseen>>

\* A row that was deleted is restored, with its comments and its count.
CreateReview(visibility) ==
    /\ ~ReviewIsLive
    /\ review' = [review EXCEPT !.state = "here", !.visibility = visibility]
    /\ UNCHANGED <<fans, comments, talks, missed, unseen>>

UpdateReview(visibility) ==
    /\ ReviewIsLive
    /\ review' = [review EXCEPT !.visibility = visibility]
    /\ UNCHANGED <<fans, comments, talks, missed, unseen>>

DeleteReview ==
    /\ ReviewIsLive
    /\ review' = [review EXCEPT !.state = "deleted"]
    /\ UNCHANGED <<fans, comments, talks, missed, unseen>>

-----------------------------------------------------------------------------
(* CommentService.                                                          *)

Talks(c, talk) == talks' = [talks EXCEPT ![c] = talk]

VerifyTargetAccess(p) == ReviewIsLive /\ CanView(p)

\* A reply is to a comment that is not deleted and is no reply itself.
ParentAccepted(parent) ==
    parent # 0 => parent \in LiveComments /\ comments[parent].parent = 0

\* The checks of a new comment; .comment is the comment it replies to, or 0.
AddComment(c, p, parent) ==
    /\ talks[c] = NoTalk
    /\ VerifyTargetAccess(p) /\ ParentAccepted(parent)
    /\ Talks(c, [NoTalk EXCEPT !.at = "count", !.what = "add", !.comment = parent])
    /\ UNCHANGED <<review, fans, comments, missed, unseen>>

\* The comment is loaded, for its author or a moderator.
DeleteComment(c, k) ==
    /\ talks[c] = NoTalk
    /\ k \in LiveComments
    /\ Talks(c, [NoTalk EXCEPT !.at = "erase", !.what = "delete", !.comment = k])
    /\ UNCHANGED <<review, fans, comments, missed, unseen>>

\* CommentRepository.soft_delete: the update locks the row until the commit.
SoftDelete(c) ==
    /\ talks[c].at = "erase"
    /\ \A d \in TalkCalls : /\ talks[d].what = "delete" /\ talks[d].comment = talks[c].comment
                            => talks[d].at = "erase"
    /\ Talks(c, [talks[c] EXCEPT !.at = "count"])
    /\ UNCHANGED <<review, fans, comments, missed, unseen>>

\* The review is loaded again, unless it was deleted in the meantime.
ReadCount(c) ==
    /\ talks[c].at = "count"
    /\ Talks(c, [talks[c] EXCEPT !.at = "commit", !.found = ReviewIsLive,
                                 !.count = IF ReviewIsLive THEN review.count ELSE 0])
    /\ UNCHANGED <<review, fans, comments, missed, unseen>>

\* A request commits: for the others that have read the count, and will write
\* over it, this was one more addition or deletion.
EndTalk(c, add, del) ==
    talks' = [d \in TalkCalls |->
                 IF d = c THEN NoTalk
                 ELSE IF talks[d].at = "commit" /\ talks[d].found
                 THEN [talks[d] EXCEPT !.adds = @ + add, !.dels = @ + del]
                 ELSE talks[d]]

CommitComment(c) ==
    LET me == talks[c] IN
    /\ me.at = "commit" /\ me.what = "add"
    /\ Len(comments) < MaxComments
    /\ comments' = Append(comments, [parent |-> me.comment, live |-> TRUE])
    /\ review' = IF me.found THEN [review EXCEPT !.count = me.count + 1] ELSE review
    /\ missed' = missed + (IF me.found THEN me.adds ELSE 1)
    /\ unseen' = unseen + me.dels
    /\ EndTalk(c, IF me.found THEN 1 ELSE 0, 0)
    /\ UNCHANGED fans

\* Mutant: the count goes below zero.
OneBelow(n) == n - 1

\* The count once a deletion that read n has committed: zero stays zero, and a
\* column that keeps the value it was read with is not written.
OneLess(n) == IF n = 0 THEN review.count ELSE n - 1

\* Nothing tells a deletion that it waited for another one of the same comment:
\* it counts it again.
CommitDeletion(c) ==
    LET me == talks[c]
        live == comments[me.comment].live
        writes == me.found /\ me.count # 0
    IN
    /\ me.at = "commit" /\ me.what = "delete"
    /\ comments' = [comments EXCEPT ![me.comment].live = FALSE]
    /\ review' = IF me.found THEN [review EXCEPT !.count = OneLess(me.count)] ELSE review
    /\ missed' = missed + (IF writes THEN me.adds + (IF live THEN 0 ELSE 1) ELSE 0)
    /\ unseen' = unseen + (IF writes THEN me.dels ELSE IF live THEN 1 ELSE 0)
    /\ EndTalk(c, 0, IF writes /\ live THEN 1 ELSE 0)
    /\ UNCHANGED fans

-----------------------------------------------------------------------------

DiscussionInit ==
    /\ review = [state |-> "absent", visibility |-> "public", count |-> 0]
    /\ fans = {}
    /\ comments = <<>>
    /\ talks = [c \in TalkCalls |-> NoTalk]
    /\ missed = 0
    /\ unseen = 0

DiscussionNext ==
    \/ \E v \in Visibilities : CreateReview(v) \/ UpdateReview(v)
    \/ DeleteReview
    \/ \E p \in Readers : Follow(p) \/ Unfollow(p)
    \/ \E c \in TalkCalls :
          \/ \E p \in People, parent \in {0} \cup LiveComments : AddComment(c, p, parent)
          \/ \E k \in LiveComments : DeleteComment(c, k)
          \/ SoftDelete(c) \/ ReadCount(c) \/ CommitComment(c) \/ CommitDeletion(c)

DiscussionSpec == DiscussionInit /\ [][DiscussionNext]_discussionVars

-----------------------------------------------------------------------------

\* The number shown with a review follows its comments, through deletion and
\* restoration and whatever requests overlap.  It is too low by no more than the
\* comments added while the review was gone, the additions another request
\* wrote over with the count it had read before them, and the comments deleted
\* twice at once; and too high by no more than the deletions while the review
\* was gone, those written over, and those that found no count to lower.
CountFollowsComments ==
    /\ Cardinality(LiveComments) <= review.count + missed
    /\ review.count <= Cardinality(LiveComments) + unseen

\* The list of reviews, filtered in the database, holds a review for exactly
\* those who may also open it, which is decided in Python.
ViewsAgree == \A p \in People : ListReviews(p) <=> GetReview(p)

=============================================================================
