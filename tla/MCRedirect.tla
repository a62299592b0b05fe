------------------------------ MODULE MCRedirect ------------------------------
(***************************************************************************)
(* One administrator fills in the OAuth form of the dashboard, a redirect  *)
(* URI among the fields.                                                   *)
(***************************************************************************)
EXTENDS ServerSettings

CONSTANT one

OauthEntry == [t \in Tab |-> {<<"oauthGoogleClientId", "new">>, <<"oauthGoogleClientSecret", "new">>,
                              <<"oauthGoogleRedirectUri", "new">>}]
OauthPart == [t \in Tab |-> {"oauth"}]
ThreeFields == [t \in Tab |-> 3]
OneSave == [t \in Tab |-> 1]
=============================================================================
