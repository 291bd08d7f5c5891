---------------------------- MODULE MCRecordLink ----------------------------
(***************************************************************************)
(* A window of two numbers, so that it shifts, datagrams of any two        *)
(* records, and three epochs.  How many records an epoch has and how many  *)
(* epochs there are share one bound: many records of the peer in an epoch, *)
(* or two switches of each side, before, between and after data.           *)
(***************************************************************************)
EXTENDS RecordLink

NoStale == {}

\* A record the server encrypted in epoch 1 of an association this client had
\* on the same listenPort before.
OldAssociation == {[epoch |-> 1, sequence_number |-> 2, keys |-> <<"old", 1>>,
                    type |-> "application_data", data |-> "data"]}
=============================================================================
