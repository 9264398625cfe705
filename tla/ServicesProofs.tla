--------------------------- MODULE ServicesProofs ---------------------------
(***************************************************************************)
(* The ten components taken together, one of them moving: the composition     *)
(* implements the specification of each, so what is proved of a component     *)
(* holds of the composition that the run services checks.                     *)
(***************************************************************************)
EXTENDS MCServices, AccountsProofs, RequestProofs, ProviderProofs, LibraryProofs

\* A step of one component leaves the variables of the nine others.
LEMMA OthersStand ==
  ASSUME NEW name, Others(name)
  PROVE  /\ part = name
         /\ name # "sessions" => UNCHANGED sessionVars
         /\ name # "seeding" => UNCHANGED seedVars
         /\ name # "images" => UNCHANGED imageVars
         /\ name # "lists" => UNCHANGED listVars
         /\ name # "discussion" => UNCHANGED discussionVars
         /\ name # "roles" => UNCHANGED roleVars
         /\ name # "limiter" => UNCHANGED limiterVars
         /\ name # "pacing" => UNCHANGED pacingVars
         /\ name # "admission" => UNCHANGED admissionVars
         /\ name # "tracking" => UNCHANGED trackingVars
  BY Zenon DEF Others

\* Every step of the composition is a step of each component or leaves it alone.
LEMMA StepsProject ==
  ASSUME [ServicesNext]_<<servicesVars, part>>
  PROVE  /\ [SessionsNext]_sessionVars
         /\ [SeedingNext]_seedVars
         /\ [ProfileImagesNext]_imageVars
         /\ [MediaListsNext]_listVars
         /\ [DiscussionNext]_discussionVars
         /\ [RolesNext]_roleVars
         /\ [RateLimiterNext]_limiterVars
         /\ [ProviderPacingNext]_pacingVars
         /\ [AdmissionNext]_admissionVars
         /\ [TrackingNext]_trackingVars
  <1>1. CASE Others("sessions") /\ SessionsNext
    BY <1>1, OthersStand
  <1>2. CASE Others("seeding") /\ SeedingNext
    BY <1>2, OthersStand
  <1>3. CASE Others("images") /\ ProfileImagesNext
    BY <1>3, OthersStand
  <1>4. CASE Others("lists") /\ MediaListsNext
    BY <1>4, OthersStand
  <1>5. CASE Others("discussion") /\ DiscussionNext
    BY <1>5, OthersStand
  <1>6. CASE Others("roles") /\ RolesNext
    BY <1>6, OthersStand
  <1>7. CASE Others("limiter") /\ RateLimiterNext
    BY <1>7, OthersStand
  <1>8. CASE Others("pacing") /\ ProviderPacingNext
    BY <1>8, OthersStand
  <1>9. CASE Others("admission") /\ AdmissionNext
    BY <1>9, OthersStand
  <1>10. CASE Others("tracking") /\ TrackingNext
    BY <1>10, OthersStand
  <1>11. CASE UNCHANGED <<servicesVars, part>>
    BY <1>11 DEF servicesVars
  <1> QED
    BY <1>1, <1>2, <1>3, <1>4, <1>5, <1>6, <1>7, <1>8, <1>9, <1>10, <1>11 DEF ServicesNext

(* The composition implements each of its components: a behaviour of the ten  *)
(* is, for every one of them, a behaviour of its own specification, so what   *)
(* is proved of a component's handlers alone carries over.                    *)
THEOREM ServicesAreComponents ==
  ServicesSpec => /\ SessionsSpec
                  /\ SeedingSpec
                  /\ ProfileImagesSpec
                  /\ MediaListsSpec
                  /\ DiscussionSpec
                  /\ RolesSpec
                  /\ RateLimiterSpec
                  /\ ProviderPacingSpec
                  /\ AdmissionSpec
                  /\ TrackingSpec
  <1>1. ServicesInit => /\ SessionsInit /\ SeedingInit /\ ProfileImagesInit /\ MediaListsInit
                        /\ DiscussionInit /\ RolesInit /\ RateLimiterInit /\ ProviderPacingInit
                        /\ AdmissionInit /\ TrackingInit
    BY DEF ServicesInit
  <1> QED
    BY <1>1, StepsProject, PTL
    DEF ServicesSpec, SessionsSpec, SeedingSpec, ProfileImagesSpec, MediaListsSpec,
        DiscussionSpec, RolesSpec, RateLimiterSpec, ProviderPacingSpec, AdmissionSpec,
        TrackingSpec

(* In every behaviour of the composition the tables of all ten components     *)
(* hold what their modules say, for any numbers of accounts, requests, files, *)
(* lists and threads.                                                         *)
THEOREM ServicesTypeCorrect == ServicesSpec => []ServicesTypeOK
  <1>1. /\ SessionsTypeOK /\ SeedingTypeOK /\ ProfileImagesTypeOK /\ MediaListsTypeOK
        /\ DiscussionTypeOK /\ RolesTypeOK /\ RateLimiterTypeOK /\ ProviderPacingTypeOK
        /\ AdmissionTypeOK /\ TrackingTypeOK
        => ServicesTypeOK
    BY DEF ServicesTypeOK
  <1> QED
    BY <1>1, ServicesAreComponents, SessionsTypeCorrect, SeedingTypeCorrect,
       ProfileImagesTypeCorrect, MediaListsTypeCorrect, DiscussionTypeCorrect,
       RolesTypeCorrect, LimiterTypeCorrect, PacingTypeCorrect, AdmissionTypeCorrect,
       TrackingTypeCorrect, PTL

(* What is proved of each component holds of the composition: every property  *)
(* that the run services checks, for every value of the constants, whatever   *)
(* requests, retries, refreshes, reorders and changes of a role overlap.      *)
THEOREM ServicesKeepTheirPromises ==
  ServicesSpec => /\ []RevocationReachesAll
                  /\ []SpentTogether
                  /\ []StaysSignedIn
                  /\ []OneLiveTokenPerBranch
                  /\ []SeedTotalsMatch
                  /\ []CompletedPageIsDone
                  /\ []ProfileIsKept
                  /\ []NothingLeaks
                  /\ []CountFollowsComments
                  /\ []ViewsAgree
                  /\ []RootRemains
                  /\ []WindowEnds
                  /\ []RateIsKept
                  /\ []OneJobPerFile
                  /\ []LimitIsNearlyKept
                  /\ []RowsWithinLimit
                  /\ []DatesFollowStatus
                  /\ OrderIsKept
                  /\ ReorderIsObeyed
  BY ServicesAreComponents, RevocationsReachAll, LettersAreSpentTogether,
     DevicesStaySignedIn, BranchesHaveOneLiveToken, TotalsMatch, CompletedPagesAreDone,
     ProfilesAreKept, NothingIsLeaked, CountFollows, ViewsAlwaysAgree, RootsRemain,
     WindowsEnd, RateIsAlwaysKept, FilesHaveOneAnswer, LimitsAreNearlyKept, RowsAreLimited,
     DatesAlwaysFollow, OrderIsAlwaysKept, ReordersAreObeyed, PTL

=============================================================================
