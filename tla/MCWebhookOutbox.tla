-------------------------- MODULE MCWebhookOutbox --------------------------
(* Two workers, one test delivery and one action delivery to one            *)
(* destination: the smallest outbox in which a lease can be taken over.     *)
EXTENDS WebhookOutbox, TLC

CONSTANTS test, action, site

MCDelivery      == {test, action}
MCTest          == {test}
MCDestination   == {site}
MCDestinationOf == [d \in MCDelivery |-> site]
Symmetry        == Permutations(Worker)
=============================================================================
