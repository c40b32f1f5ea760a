-------------------------- MODULE MCBookingIngestion --------------------------
EXTENDS BookingIngestion
===============================================================================
