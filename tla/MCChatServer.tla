---------------------------- MODULE MCChatServer ----------------------------
(***************************************************************************)
(* Instances of the chat server.  Receiver r1 has the user name of sender  *)
(* s1, and so does not hear it.                                            *)
(***************************************************************************)
EXTENDS ChatProperties, TLC

CONSTANTS s1, s2, r1, r2, lobby, attic, ann, bob, eve

MCUsername == (s1 :> ann) @@ (s2 :> bob) @@ (r1 :> ann) @@ (r2 :> eve)

MCSenders == {s1, s2}
MCReceivers == {r1, r2}
MCOneSender == {s1}
MCOneReceiver == {r2}
MCRoomNames == {lobby, attic}
MCOneRoomName == {lobby}

(* s1 can join a room and say two things there, s2 one. *)
MCMaxReq == (s1 :> 3) @@ (s2 :> 2)
(* Each joins a room and speaks there, or joins one room after the other. *)
MCTwoRequests == (s1 :> 2) @@ (s2 :> 2)
(* Enough for s1 to speak in one room and then in the other. *)
MCFourRequests == s1 :> 4
=============================================================================
