----------------------------- MODULE MCServices -----------------------------
(***************************************************************************)
(* Components that share nothing but the server, checked side by side:     *)
(* part says whose behaviour this is, and the others stay in one of their  *)
(* initial states.  Feeds is there twice: with a client that reads feeds,   *)
(* and with the page that creates a subscription when there is none.       *)
(***************************************************************************)
EXTENDS Access, RateLimit, CoPresence, Feeds, Presence

CONSTANTS a, b, gitlab, forgejo, client1

VARIABLE part
allVars == <<part, vars, rateVars, coVars, feedVars, presenceVars>>

ServicesInit ==
  /\ part \in {"access", "rate", "presence", "feeds", "subscriptions", "views"}
  /\ Init /\ RateInit /\ CoInit /\ FeedInit /\ PresenceInit
  /\ part # "access" => created = 0 /\ lanes = 1
  \* Feeds treats all members alike: the holder of the first day may be a.
  /\ part \notin {"feeds", "subscriptions"} => edits = 0
  /\ \A r \in hats : part # "feeds" \/ r.day = 1 => r.who = a
  /\ hat.primary = a

\* Each component's Next, with what the others keep.
ServicesNext ==
  /\ UNCHANGED part
  /\ \/ part = "access" /\ Next /\ UNCHANGED <<rateVars, coVars, feedVars, presenceVars>>
     \/ part = "rate" /\ RateNext /\ UNCHANGED <<vars, coVars, feedVars, presenceVars>>
     \/ part = "presence" /\ CoNext /\ UNCHANGED <<vars, rateVars, feedVars, presenceVars>>
     \/ part = "feeds" /\ FeedNext /\ UNCHANGED <<tab, vars, rateVars, coVars, presenceVars>>
     \/ part = "subscriptions" /\ FeedNext /\ UNCHANGED <<client, vars, rateVars, coVars, presenceVars>>
     \/ part = "views" /\ PresenceNext /\ UNCHANGED <<vars, rateVars, coVars, feedVars>>

ServicesSpec == ServicesInit /\ [][ServicesNext]_allVars

ServicesTypeOK ==
  /\ part = "access" => TypeOK
  /\ part = "rate" => RateTypeOK
  /\ part = "presence" => CoTypeOK
  /\ part \in {"feeds", "subscriptions"} => FeedTypeOK
  /\ part = "views" => PresenceTypeOK

=============================================================================
