------------------------------ MODULE MCAccess ------------------------------
EXTENDS Access

CONSTANTS s1, s2, admin, trader, viewer, guest, auto, empty, long, x, y

MCCredentials == {<<admin, admin>>, <<viewer, viewer>>, <<viewer, x>>,
                  <<guest, empty>>, <<guest, x>>, <<x, x>>, <<x, y>>,
                  <<empty, x>>, <<x, empty>>, <<long, x>>}
=============================================================================
