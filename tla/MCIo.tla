-------------------------------- MODULE MCIo --------------------------------
EXTENDS IoEngine

CONSTANTS C1, C2
=============================================================================
