----------------------------- MODULE MCServices -----------------------------
(***************************************************************************)
(* Ten components that share no state, checked in one run: the variable part  *)
(* picks one of them for a whole behaviour, so the states of the run are      *)
(* those of the ten taken one by one, not their combinations.                 *)
(***************************************************************************)
EXTENDS Sessions, Seeding, ProfileImages, MediaLists, Discussion, Roles,
        RateLimiter, ProviderPacing, Admission, Tracking, TLC

VARIABLE part

servicesVars == <<sessionVars, seedVars, imageVars, listVars, discussionVars, roleVars,
                  limiterVars, pacingVars, admissionVars, trackingVars>>

ServicesInit ==
    /\ part \in {"sessions", "seeding", "images", "lists", "discussion", "roles",
                 "limiter", "pacing", "admission", "tracking"}
    /\ SessionsInit /\ SeedingInit /\ ProfileImagesInit /\ MediaListsInit
    /\ DiscussionInit /\ RolesInit /\ RateLimiterInit /\ ProviderPacingInit
    /\ AdmissionInit /\ TrackingInit
    /\ part # "limiter" => failClosed    \* the setting matters to the limiter alone

Others(name) ==
    /\ part = name
    /\ part' = part
    /\ name # "sessions" => UNCHANGED sessionVars
    /\ name # "seeding" => UNCHANGED seedVars
    /\ name # "images" => UNCHANGED imageVars
    /\ name # "lists" => UNCHANGED listVars
    /\ name # "discussion" => UNCHANGED discussionVars
    /\ name # "roles" => UNCHANGED roleVars
    /\ name # "limiter" => UNCHANGED limiterVars
    /\ name # "pacing" => UNCHANGED pacingVars
    /\ name # "admission" => UNCHANGED admissionVars
    /\ name # "tracking" => UNCHANGED trackingVars

ServicesNext ==
    \/ Others("sessions") /\ SessionsNext
    \/ Others("seeding") /\ SeedingNext
    \/ Others("images") /\ ProfileImagesNext
    \/ Others("lists") /\ MediaListsNext
    \/ Others("discussion") /\ DiscussionNext
    \/ Others("roles") /\ RolesNext
    \/ Others("limiter") /\ RateLimiterNext
    \/ Others("pacing") /\ ProviderPacingNext
    \/ Others("admission") /\ AdmissionNext
    \/ Others("tracking") /\ TrackingNext

ServicesSpec == ServicesInit /\ [][ServicesNext]_<<servicesVars, part>>

\* The tables of the component at work hold what its module says they hold.
ServicesTypeOK ==
    /\ part = "sessions" => SessionsTypeOK
    /\ part = "seeding" => SeedingTypeOK
    /\ part = "images" => ProfileImagesTypeOK
    /\ part = "lists" => MediaListsTypeOK
    /\ part = "discussion" => DiscussionTypeOK
    /\ part = "roles" => RolesTypeOK
    /\ part = "limiter" => RateLimiterTypeOK
    /\ part = "pacing" => ProviderPacingTypeOK
    /\ part = "admission" => AdmissionTypeOK
    /\ part = "tracking" => TrackingTypeOK

-----------------------------------------------------------------------------

\* The requests, threads and workers of the instance are interchangeable.
Symmetry == Permutations(Calls)

MCOrders == {<<"a", "b", "x", "a">>, <<"c">>}

MCFiles == {<<"titled">>, <<"titled", "blank">>, <<"titled", "titled">>, <<"titled", "titled", "titled">>,
            <<"titled", "titled", "blank">>, <<"blank">>, <<"bad">>}

=============================================================================
