------------------------------ MODULE MCAddOnBoot ------------------------------
EXTENDS AddOnBoot

\* Credentials alone, credentials over an own bundle, an own bundle alone.
SomeOptions == {[creds |-> TRUE,  home |-> FALSE, bundle |-> "none"],
                [creds |-> TRUE,  home |-> TRUE,  bundle |-> "b64"],
                [creds |-> FALSE, home |-> TRUE,  bundle |-> "plain"]}
=============================================================================
