----------------------- MODULE MCNotificationPipeline -----------------------
(* Small instances of NotificationPipeline for TLC.                        *)
EXTENDS NotificationPipeline, TLC

CONSTANTS u1, u2, r1, f1, f2, c1, c2, w1, w2, q1

MCEventTypes == {"new_charge", "scheduled_job_failed"}
MCKind == [k \in Keys |-> IF k \in {f1, f2} THEN "scheduled_job_failed" ELSE "new_charge"]

\* One tenant, or two with a key, a channel and a retry job each.
OneOwner == [x \in Keys \cup Channels \cup Workers |-> u1]
TwoOwners == [x \in Keys \cup Channels \cup Workers |-> IF x \in {f2, c2, w2} THEN u2 ELSE u1]
OneFailureKey == [u \in Users |-> f1]
TwoFailureKeys == [u \in Users |-> IF u = u1 THEN f1 ELSE f2]

\* Users subscribe nobody, one channel or all channels to new charges.
ChargeRules == {{}} \cup {{<<c, "new_charge">>} : c \in Channels} \cup {Channels \X {"new_charge"}}
\* All channels are subscribed: who is reached depends on which are enabled.
EveryChannel == {Channels \X {"new_charge"}}
\* Each tenant's channel is subscribed to what the tenant's events are.
EachTenant == {{<<c1, "new_charge">>, <<c2, "scheduled_job_failed">>}}

AlikeChannels == Permutations(Channels)
AlikeChannelsAndWorkers == Permutations(Channels) \cup Permutations(Workers)
=============================================================================
