--------------------------- MODULE MCRoomMembers ---------------------------
EXTENDS RoomMembers
=============================================================================
