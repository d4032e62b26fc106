----------------------------- MODULE MCBookings -----------------------------
EXTENDS Bookings, TLC
BookingSymmetry == Permutations(Request) \cup Permutations(Booking) \cup Permutations(Client)
=============================================================================
