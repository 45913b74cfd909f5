----------------------------- MODULE MCChatRoom -----------------------------
EXTENDS ChatRoom, TLC

CONSTANTS alice, bob, c1, c2

MCUsers == {alice, bob}
MCClients == {c1, c2}
OneUser == {alice}

Symmetry == Permutations(MCUsers) \cup Permutations(MCClients)
=============================================================================
