---------------------------- MODULE MCAdbProcess ----------------------------
(* Listings longer than the pipe, with no, one or several devices.           *)
EXTENDS AdbProcess

MCListings ==
  { <<"heading">>, <<"heading", "authorized">>, <<"heading", "offline">>,
    <<"heading", "authorized", "authorized", "offline">>,
    <<"daemon", "daemon", "heading", "authorized">>,
    <<"heading", "authorized", "offline", "offline", "authorized">> }
=============================================================================
