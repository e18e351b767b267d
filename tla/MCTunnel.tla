-------------------------------- MODULE MCTunnel ------------------------------
EXTENDS Tunnel

===============================================================================
