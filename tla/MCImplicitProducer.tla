------------------------ MODULE MCImplicitProducer ------------------------
EXTENDS ImplicitProducer

=============================================================================
